---- MODULE Spec2Model ----
(***************************************************************************)
(* Verification model of the DICOM anonymizer: the pseudonymization mapper *)
(* (internal/identity), the folder pipeline (internal/anonymizer) and the  *)
(* tag transforms (internal/dicom writer).                                 *)
(*                                                                         *)
(* Go strings are byte strings; they are modelled as sequences of byte     *)
(* values (0..255), so that trimming, case folding, tokenising, sorting    *)
(* and JSON's UTF-8 coercion are computed as the code computes them.       *)
(***************************************************************************)
EXTENDS Integers, Sequences, FiniteSets, TLC

(***************************************************************************)
(* Byte-string helpers (package strings / unicode, ASCII range).           *)
(***************************************************************************)

\* unicode.IsSpace on the ASCII range: \t \n \v \f \r and space.
IsSpace(b) == b \in {9, 10, 11, 12, 13, 32}

RECURSIVE TrimLeft(_)
TrimLeft(s) ==
    IF s = <<>> THEN <<>>
    ELSE IF IsSpace(Head(s)) THEN TrimLeft(Tail(s)) ELSE s

RECURSIVE TrimRight(_)
TrimRight(s) ==
    IF s = <<>> THEN <<>>
    ELSE IF IsSpace(s[Len(s)]) THEN TrimRight(SubSeq(s, 1, Len(s) - 1)) ELSE s

\* strings.TrimSpace
TrimSpace(s) == TrimRight(TrimLeft(s))

\* strings.ToUpper / strings.ToLower on ASCII bytes
UpperByte(b) == IF b \in 97..122 THEN b - 32 ELSE b
LowerByte(b) == IF b \in 65..90 THEN b + 32 ELSE b
ToUpper(s) == [i \in 1..Len(s) |-> UpperByte(s[i])]
ToLower(s) == [i \in 1..Len(s) |-> LowerByte(s[i])]

\* strings.ReplaceAll(name, "^", " ") and strings.ReplaceAll(name, ",", " ")
ReplaceSeparators(s) == [i \in 1..Len(s) |-> IF s[i] \in {94, 44} THEN 32 ELSE s[i]]

\* nonAlphaRegex = [^A-Z\s]: a byte survives iff it is A-Z or one of \t \n \f \r space
KeptByRegex(b) == b \in 65..90 \/ b \in {9, 10, 12, 13, 32}

RECURSIVE StripNonAlpha(_)
StripNonAlpha(s) ==
    IF s = <<>> THEN <<>>
    ELSE IF KeptByRegex(Head(s)) THEN <<Head(s)>> \o StripNonAlpha(Tail(s))
         ELSE StripNonAlpha(Tail(s))

\* strings.Fields: the maximal runs of non-space bytes, in order
RECURSIVE FieldsFrom(_, _)
FieldsFrom(s, cur) ==
    IF s = <<>> THEN (IF cur = <<>> THEN <<>> ELSE <<cur>>)
    ELSE IF IsSpace(Head(s))
         THEN (IF cur = <<>> THEN <<>> ELSE <<cur>>) \o FieldsFrom(Tail(s), <<>>)
         ELSE FieldsFrom(Tail(s), Append(cur, Head(s)))

Fields(s) == FieldsFrom(s, <<>>)

\* Go's string order: bytewise lexicographic, a proper prefix sorts first
RECURSIVE StrLess(_, _)
StrLess(a, b) ==
    IF b = <<>> THEN FALSE
    ELSE IF a = <<>> THEN TRUE
    ELSE IF Head(a) # Head(b) THEN Head(a) < Head(b)
    ELSE StrLess(Tail(a), Tail(b))

RECURSIVE InsertSorted(_, _)
InsertSorted(x, ts) ==
    IF ts = <<>> THEN <<x>>
    ELSE IF StrLess(Head(ts), x) THEN <<Head(ts)>> \o InsertSorted(x, Tail(ts))
         ELSE <<x>> \o ts

\* sort.Strings
RECURSIVE SortStrings(_)
SortStrings(ts) ==
    IF ts = <<>> THEN <<>> ELSE InsertSorted(Head(ts), SortStrings(Tail(ts)))

\* strings.Join(parts, "")
RECURSIVE Join(_)
Join(ts) == IF ts = <<>> THEN <<>> ELSE Head(ts) \o Join(Tail(ts))

(***************************************************************************)
(* internal/identity/hash.go                                               *)
(***************************************************************************)

NormalizeName(name) ==
    IF name = <<>> THEN <<>>
    ELSE Join(SortStrings(Fields(StripNonAlpha(ReplaceSeparators(ToUpper(name))))))

\* The SHA-256 prefix is modelled as an injective function of the hashed
\* byte string "<normalized>|<dob>|<salt>": the hash is the triple itself.
CreateIdentityHash(name, dob, salt) == <<NormalizeName(name), TrimSpace(dob), salt>>

\* "", "unknown", "no name", "noname", "anonymous", "test", "patient"
PlaceholderNames ==
    { <<>>,
      <<117, 110, 107, 110, 111, 119, 110>>,
      <<110, 111, 32, 110, 97, 109, 101>>,
      <<110, 111, 110, 97, 109, 101>>,
      <<97, 110, 111, 110, 121, 109, 111, 117, 115>>,
      <<116, 101, 115, 116>>,
      <<112, 97, 116, 105, 101, 110, 116>> }

\* "", "00000000", "11111111", "19000101", "99999999"
PlaceholderDOBs ==
    { <<>>,
      <<48, 48, 48, 48, 48, 48, 48, 48>>,
      <<49, 49, 49, 49, 49, 49, 49, 49>>,
      <<49, 57, 48, 48, 48, 49, 48, 49>>,
      <<57, 57, 57, 57, 57, 57, 57, 57>> }

IsValidIdentity(name, dob) ==
    LET nameNormalized == ToLower(NormalizeName(name))
        dobStr == TrimSpace(dob)
    IN  /\ ~(nameNormalized \in PlaceholderNames \/ Len(nameNormalized) < 3)
        /\ ~(dobStr \in PlaceholderDOBs \/ Len(dobStr) # 8)

(***************************************************************************)
(* encoding/json as used by save() and load(): string values and map keys  *)
(* are coerced to valid UTF-8, every invalid byte becoming U+FFFD.         *)
(***************************************************************************)

IsCont(b) == b \in 128..191

\* utf8.DecodeRuneInString: the length of the well-formed encoding at the
\* head of s, or 0 when the head byte starts no well-formed encoding.
RuneLen(s) ==
    LET b == Head(s)
        c(i) == IF Len(s) >= i THEN s[i] ELSE 0
    IN  IF b < 128 THEN 1
        ELSE IF b \in 194..223 /\ IsCont(c(2)) THEN 2
        ELSE IF b = 224 /\ c(2) \in 160..191 /\ IsCont(c(3)) THEN 3
        ELSE IF b \in (225..236) \cup {238, 239} /\ IsCont(c(2)) /\ IsCont(c(3)) THEN 3
        ELSE IF b = 237 /\ c(2) \in 128..159 /\ IsCont(c(3)) THEN 3
        ELSE IF b = 240 /\ c(2) \in 144..191 /\ IsCont(c(3)) /\ IsCont(c(4)) THEN 4
        ELSE IF b \in 241..243 /\ IsCont(c(2)) /\ IsCont(c(3)) /\ IsCont(c(4)) THEN 4
        ELSE IF b = 244 /\ c(2) \in 128..143 /\ IsCont(c(3)) /\ IsCont(c(4)) THEN 4
        ELSE 0

\* U+FFFD in UTF-8
ReplacementRune == <<239, 191, 189>>

\* The string a reader of the document gets back for the Go string s.
RECURSIVE JSONString(_)
JSONString(s) ==
    IF s = <<>> THEN <<>>
    ELSE LET n == RuneLen(s)
         IN  IF n = 0 THEN ReplacementRune \o JSONString(Tail(s))
             ELSE SubSeq(s, 1, n) \o JSONString(SubSeq(s, n + 1, Len(s)))

\* The greatest string of a non-empty finite set, in Go's string order.
MaxString(S) == CHOOSE x \in S : \A y \in S : y = x \/ StrLess(y, x)

\* A map[string]string written as a JSON object and read back: keys are
\* written in sorted order, and of two entries whose keys coerce to the same
\* JSON key the reader keeps the one written last.
JSONMap(m) ==
    LET keys == {JSONString(k) : k \in DOMAIN m}
    IN  [j \in keys |-> m[MaxString({k \in DOMAIN m : JSONString(k) = j})]]

JSONList(l) == [i \in 1..Len(l) |-> JSONString(l[i])]

(***************************************************************************)
(* internal/identity/mapper.go                                             *)
(***************************************************************************)

MatchIdentity == "identity"
MatchPID == "pid"
MatchNone == "none"

\* The empty Go string, used where the code passes "" for "no value".
EmptyString == <<>>

EmptyMap == [k \in {} |-> <<>>]

Put(m, k, v) == [x \in DOMAIN m \cup {k} |-> IF x = k THEN v ELSE m[x]]

RECURSIVE Digits(_)
Digits(n) == IF n < 10 THEN <<48 + n>> ELSE Digits(n \div 10) \o <<48 + (n % 10)>>

RECURSIVE ZeroPad(_, _)
ZeroPad(ds, width) == IF Len(ds) >= width THEN ds ELSE ZeroPad(<<48>> \o ds, width)

\* "ANON-"
AnonPrefix == <<65, 78, 79, 78, 45>>

\* fmt.Sprintf("ANON-%06d", n)
FormatAnonID(n) == AnonPrefix \o ZeroPad(Digits(n), 6)

RECURSIVE ParseDecimal(_)
ParseDecimal(ds) ==
    IF ds = <<>> THEN 0
    ELSE 10 * ParseDecimal(SubSeq(ds, 1, Len(ds) - 1)) + (ds[Len(ds)] - 48)

\* The numeric suffix of an anonymous id.
SuffixOf(id) == ParseDecimal(SubSeq(id, Len(AnonPrefix) + 1, Len(id)))

contains(slice, val) == \E i \in 1..Len(slice) : slice[i] = val

\* The mapper's mutable fields as one value.
MapperState(im, pm, rm, c) ==
    [identityMap |-> im, pidMap |-> pm, reverseMap |-> rm, counter |-> c]

EmptyMapper == MapperState(EmptyMap, EmptyMap, EmptyMap, 0)

\* Mutant: the id is formatted but the counter is not advanced.
generateID_NoIncrement(m) ==
    [m |-> m, id |-> FormatAnonID(m.counter + 1)]

generateID(m) ==
    [m |-> [m EXCEPT !.counter = m.counter + 1], id |-> FormatAnonID(m.counter + 1)]

updateReverseMap(rm, anonID, identityHash, patientID) ==
    LET entry == IF anonID \in DOMAIN rm THEN rm[anonID]
                 ELSE [IdentityHashes |-> <<>>, PatientIDs |-> <<>>]
        hashes == IF identityHash # EmptyString /\ ~contains(entry.IdentityHashes, identityHash)
                  THEN Append(entry.IdentityHashes, identityHash)
                  ELSE entry.IdentityHashes
        pids == IF patientID # EmptyString /\ ~contains(entry.PatientIDs, patientID)
                THEN Append(entry.PatientIDs, patientID)
                ELSE entry.PatientIDs
    IN  Put(rm, anonID, [IdentityHashes |-> hashes, PatientIDs |-> pids])

Outcome(m, id, method, saved) == [m |-> m, id |-> id, method |-> method, saved |-> saved]

\* Mutant: the PID is mapped to the identity's id even when the pid-map
\* already holds it.
IdentityKnown_Overwrite(m, identityHash, patientID) ==
    LET anonID == m.identityMap[identityHash]
    IN  IF patientID # EmptyString
        THEN Outcome([m EXCEPT !.pidMap = Put(m.pidMap, patientID, anonID)],
                     anonID, MatchIdentity, TRUE)
        ELSE Outcome(m, anonID, MatchIdentity, FALSE)

\* mapper.go 188-197: the identity is already mapped.
IdentityKnown(m, identityHash, patientID) ==
    LET anonID == m.identityMap[identityHash]
    IN  IF patientID # EmptyString /\ patientID \notin DOMAIN m.pidMap
        THEN Outcome([m EXCEPT !.pidMap = Put(m.pidMap, patientID, anonID)],
                     anonID, MatchIdentity, TRUE)
        ELSE Outcome(m, anonID, MatchIdentity, FALSE)

\* Mutant: a fresh id is generated instead of adopting the PID's id.
LinkIdentity_Fresh(m, identityHash, patientID) ==
    LET g == generateID(m)
    IN  Outcome([g.m EXCEPT !.identityMap = Put(g.m.identityMap, identityHash, g.id),
                            !.reverseMap = updateReverseMap(g.m.reverseMap, g.id,
                                                            identityHash, patientID)],
                g.id, MatchIdentity, TRUE)

\* mapper.go 199-205: the PID is already mapped, link the identity to its id.
LinkIdentity(m, identityHash, patientID) ==
    LET anonID == m.pidMap[patientID]
    IN  Outcome([m EXCEPT !.identityMap = Put(m.identityMap, identityHash, anonID),
                          !.reverseMap = updateReverseMap(m.reverseMap, anonID,
                                                          identityHash, patientID)],
                anonID, MatchIdentity, TRUE)

\* Mutant: the new patient's PID is not stored in the pid-map.
NewIdentity_NoPID(m, identityHash, patientID) ==
    LET g == generateID(m)
    IN  Outcome([g.m EXCEPT !.identityMap = Put(g.m.identityMap, identityHash, g.id),
                            !.reverseMap = updateReverseMap(g.m.reverseMap, g.id,
                                                            identityHash, patientID)],
                g.id, MatchIdentity, TRUE)

\* mapper.go 207-215: new patient with a valid identity.
NewIdentity(m, identityHash, patientID) ==
    LET g == generateID(m)
        pm == IF patientID # EmptyString THEN Put(g.m.pidMap, patientID, g.id)
              ELSE g.m.pidMap
    IN  Outcome([g.m EXCEPT !.identityMap = Put(g.m.identityMap, identityHash, g.id),
                            !.pidMap = pm,
                            !.reverseMap = updateReverseMap(g.m.reverseMap, g.id,
                                                            identityHash, patientID)],
                g.id, MatchIdentity, TRUE)

\* Mutant: the pid-map is not consulted, every PID-only call allocates.
PIDFallback_NoLookup(m, patientID) ==
    LET g == generateID(m)
    IN  Outcome([g.m EXCEPT !.pidMap = Put(g.m.pidMap, patientID, g.id),
                            !.reverseMap = updateReverseMap(g.m.reverseMap, g.id,
                                                            EmptyString, patientID)],
                g.id, MatchPID, TRUE)

\* mapper.go 219-229: no valid identity, fall back to the PID.
PIDFallback(m, patientID) ==
    IF patientID \in DOMAIN m.pidMap
    THEN Outcome(m, m.pidMap[patientID], MatchPID, FALSE)
    ELSE LET g == generateID(m)
         IN  Outcome([g.m EXCEPT !.pidMap = Put(g.m.pidMap, patientID, g.id),
                                 !.reverseMap = updateReverseMap(g.m.reverseMap, g.id,
                                                                 EmptyString, patientID)],
                     g.id, MatchPID, TRUE)

\* mapper.go 231-234: neither identity nor PID.
NoIdentity(m) ==
    LET g == generateID(m) IN Outcome(g.m, g.id, MatchNone, TRUE)

\* The body of GetAnonID between Lock and Unlock, as a function of the
\* mapper's fields and salt: the new fields, the returned (id, method) and
\* whether save() was called.
GetAnonIDResult(m, s, pid, name, dob) ==
    LET patientID == TrimSpace(pid)
        patientName == TrimSpace(name)
        patientDOB == TrimSpace(dob)
    IN  IF IsValidIdentity(patientName, patientDOB)
        THEN LET identityHash == CreateIdentityHash(patientName, patientDOB, s)
             IN  IF identityHash \in DOMAIN m.identityMap
                 THEN IdentityKnown(m, identityHash, patientID)
                 ELSE IF patientID \in DOMAIN m.pidMap
                 THEN LinkIdentity(m, identityHash, patientID)
                 ELSE NewIdentity(m, identityHash, patientID)
        ELSE IF patientID # EmptyString
        THEN PIDFallback(m, patientID)
        ELSE NoIdentity(m)

\* mapper.go 183-207: what the look-ups of a call find - the identity, else
\* the PID of a valid identity, else nothing; "fallback" without identity.
LookupIdentity(m, s, pid, name, dob) ==
    LET patientID == TrimSpace(pid)
        patientName == TrimSpace(name)
        patientDOB == TrimSpace(dob)
    IN  IF ~IsValidIdentity(patientName, patientDOB) THEN "fallback"
        ELSE IF CreateIdentityHash(patientName, patientDOB, s) \in DOMAIN m.identityMap
        THEN "known"
        ELSE IF patientID \in DOMAIN m.pidMap THEN "link"
        ELSE "new"

\* mapper.go 188-234: the rest of the call after its look-ups found this.
CompleteCall(found, m, s, pid, name, dob) ==
    LET patientID == TrimSpace(pid)
        identityHash == CreateIdentityHash(TrimSpace(name), TrimSpace(dob), s)
    IN  CASE found = "known" -> IdentityKnown(m, identityHash, patientID)
          [] found = "link" -> LinkIdentity(m, identityHash, patientID)
          [] found = "new" -> NewIdentity(m, identityHash, patientID)
          [] OTHER -> IF patientID # EmptyString THEN PIDFallback(m, patientID)
                      ELSE NoIdentity(m)

\* sync.Mutex: no goroutine holds it.
NoOwner == "none"

\* Mutant: Lock returns although another goroutine holds the mutex.
CanLock_Always(owner) == TRUE

\* m.mu.Lock() returns only when no goroutine holds the mutex.
CanLock(owner) == owner = NoOwner

(***************************************************************************)
(* The persisted mapping document (MapperData) and the mapping file.       *)
(***************************************************************************)

\* json.MarshalIndent of MapperData followed by json.Unmarshal: what load()
\* reads back from a document save() wrote.  Identity hashes and anonymous
\* ids are ASCII and survive unchanged; patient ids are arbitrary strings.
MapperData(m) ==
    [IdentityMap |-> m.identityMap,
     PIDMap |-> JSONMap(m.pidMap),
     ReverseMap |-> [a \in DOMAIN m.reverseMap |->
                        [IdentityHashes |-> m.reverseMap[a].IdentityHashes,
                         PatientIDs |-> JSONList(m.reverseMap[a].PatientIDs)]],
     Counter |-> m.counter]

\* The mapping file on disk: absent, unparseable, or a document.
NoFile == [state |-> "absent", data |-> MapperData(EmptyMapper)]
CorruptFile == [state |-> "corrupt", data |-> MapperData(EmptyMapper)]
DocFile(m) == [state |-> "ok", data |-> MapperData(m)]

\* mapper.go 67-106: the fields after load() on a mapper that was just
\* constructed empty.
load(file) ==
    IF file.state # "ok" THEN EmptyMapper
    ELSE MapperState(file.data.IdentityMap, file.data.PIDMap,
                     file.data.ReverseMap, file.data.Counter)

\* mapper.go 108-138: the mapping file after save(); wr is what the file
\* system did with the write.
save(mappingFileName, file, m, wr) ==
    IF mappingFileName = EmptyString THEN file
    ELSE CASE wr = "ok" -> DocFile(m)
           [] wr = "failed" -> file
           [] wr = "partial" -> CorruptFile

WriteOutcomes == {"ok", "failed", "partial"}

(***************************************************************************)
(* internal/dicom: a dataset is the function from the tags of its elements *)
(* to their string values; a tag with no element is not in its domain.     *)
(***************************************************************************)

\* Dataset.GetString: "" when the element is not found.
GetString(ds, t) == IF t \in DOMAIN ds THEN ds[t] ELSE EmptyString

GetPatientName(ds) == GetString(ds, "PatientName")

GetPatientID(ds) == GetString(ds, "PatientID")

GetPatientBirthDate(ds) == GetString(ds, "PatientBirthDate")

GetModality(ds) == GetString(ds, "Modality")

\* "US"
ModalityUS == <<85, 83>>

\* "IVUS"
ModalityIVUS == <<73, 86, 85, 83>>

IsUltrasound(ds) ==
    LET modality == GetModality(ds)
    IN  modality = ModalityUS \/ modality = ModalityIVUS

\* Dataset.SetString: replaces the element's value; a dataset without the
\* element is returned as it is.
SetString(ds, t, value) ==
    IF t \notin DOMAIN ds THEN ds ELSE [ds EXCEPT ![t] = value]

ClearTag(ds, t) == SetString(ds, t, EmptyString)

\* Dataset.TruncateDate: YYYYMMDD -> YYYYMM01; a shorter non-empty value is
\* cleared.
TruncateDate(ds, t) ==
    LET value == GetString(ds, t)
    IN  IF Len(value) >= 6 THEN SetString(ds, t, SubSeq(value, 1, 6) \o <<48, 49>>)
        ELSE IF value # EmptyString THEN SetString(ds, t, EmptyString)
        ELSE ds

(***************************************************************************)
(* internal/anonymizer: tag lists and the two pipelines.                   *)
(***************************************************************************)

PIITagsToClear ==
    <<"PatientName", "PatientBirthDate", "PatientAge", "PatientAddress",
      "PatientTelephoneNumbers", "OtherPatientIDs", "OtherPatientIDsSequence",
      "PatientBirthTime", "PatientMotherBirthName", "MilitaryRank",
      "EthnicGroup", "PatientReligiousPreference", "PatientComments",
      "StudyTime", "SeriesTime", "AcquisitionTime", "ContentTime",
      "InstanceCreationTime", "InstitutionAddress",
      "InstitutionalDepartmentName", "StationName", "ReferringPhysicianName",
      "ReferringPhysicianAddress", "ReferringPhysicianTelephoneNumbers",
      "PerformingPhysicianName", "OperatorsName", "PhysiciansOfRecord",
      "NameOfPhysiciansReadingStudy", "RequestingPhysician",
      "ScheduledPerformingPhysicianName", "AccessionNumber",
      "RequestAttributesSequence", "PerformedProcedureStepID",
      "ScheduledProcedureStepID", "StudyID">>

DateTagsToTruncate ==
    <<"StudyDate", "SeriesDate", "AcquisitionDate", "ContentDate",
      "InstanceCreationDate">>

UltrasoundPIITags ==
    <<"PatientName", "PatientBirthDate", "PatientAge", "PatientAddress",
      "PatientTelephoneNumbers", "OtherPatientIDs", "StudyTime", "SeriesTime",
      "AcquisitionTime", "ContentTime", "InstitutionAddress",
      "InstitutionalDepartmentName", "StationName", "ReferringPhysicianName",
      "PerformingPhysicianName", "OperatorsName", "PhysiciansOfRecord",
      "NameOfPhysiciansReadingStudy", "AccessionNumber", "StudyID">>

UltrasoundDateTags ==
    <<"StudyDate", "SeriesDate", "AcquisitionDate", "ContentDate">>

\* The tags of a list.
TagsOf(tags) == {tags[i] : i \in 1..Len(tags)}

\* for _, t := range tags { ds.ClearTag(t) }
ClearTags(ds, tags) ==
    [t \in DOMAIN ds |-> IF t \in TagsOf(tags) THEN ClearTag(ds, t)[t] ELSE ds[t]]

\* for _, t := range tags { ds.TruncateDate(t) }  (no list names a tag twice)
TruncateDates(ds, tags) ==
    [t \in DOMAIN ds |-> IF t \in TagsOf(tags) THEN TruncateDate(ds, t)[t] ELSE ds[t]]

\* What a pipeline returns: an error, or the file it saved.
ProcessFailed == [err |-> TRUE, ds |-> EmptyMap, pixels |-> ""]
Saved(ds, pixels) == [err |-> FALSE, ds |-> ds, pixels |-> pixels]

\* ultrasound.go 171-193: PatientID is set first, then the clears, then the
\* truncations; the pixels are saved as they were read.
AnonymizeMetadata(file, patientID) ==
    IF ~file.readable THEN ProcessFailed
    ELSE Saved(TruncateDates(ClearTags(SetString(file.ds, "PatientID", patientID),
                                       PIITagsToClear),
                             DateTagsToTruncate),
               file.pixels)

\* ultrasound.go 15-62: the top rows are blacked out, PatientID is set, then
\* the clears, then the truncations.
AnonymizeUltrasound(file, patientID) ==
    IF ~file.readable THEN ProcessFailed
    ELSE Saved(TruncateDates(ClearTags(SetString(file.ds, "PatientID", patientID),
                                       UltrasoundPIITags),
                             UltrasoundDateTags),
               "redacted")

(***************************************************************************)
(* internal/progress: tracker and error log.                               *)
(***************************************************************************)

StatusSuccess == "success"
StatusError == "error"

\* The progress file on disk: absent, or the document of the last save.
NoProgress == [state |-> "absent", Files |-> EmptyMap]

\* A nil *Tracker (dry run).
NilTracker == [nil |-> TRUE, processed |-> EmptyMap]

\* NewTracker + load: the entries of the progress file, or none.
NewTracker(doc) ==
    [nil |-> FALSE, processed |-> IF doc.state = "ok" THEN doc.Files ELSE EmptyMap]

\* Tracker.save: the progress file after the write.
TrackerSave(processed) == [state |-> "ok", Files |-> JSONMap(processed)]

\* The progress file after a write that was cut short.
CorruptProgress == [state |-> "corrupt", Files |-> EmptyMap]

\* Tracker.save under the faults fs: a failed os.WriteFile is a warning.
SaveProgress(fs, processed) ==
    IF "progress" \in fs THEN CorruptProgress ELSE TrackerSave(processed)

\* What os.Stat reports of the files of the model: the one every file starts
\* with, and the ones it has after it was resized, rewritten in place within
\* the same second, or replaced by a file of another size and time.
StampOriginal == [size |-> 526138, sec |-> 1700000029, nsec |-> 0]
StampResized == [size |-> 526139, sec |-> 1700000089, nsec |-> 0]
StampRewritten == [size |-> 526138, sec |-> 1700000029, nsec |-> 500000000]
StampReplaced == [size |-> 525303, sec |-> 1700000034, nsec |-> 0]

\* fmt.Sprintf("%d_%d", info.Size(), info.ModTime().Unix())
HashInput(stamp) == <<stamp.size, stamp.sec>>

\* fmt.Sprintf("%x", md5.Sum(hashInput)[:4]), for the inputs of the model:
\* MD5("526138_1700000029") = 7820a2c3..., MD5("526139_1700000089") =
\* 78f3b408..., MD5("525303_1700000034") = 7820a2c3...
MD5Prefix(hashInput) ==
    CASE hashInput = <<526138, 1700000029>> -> "7820a2c3"
      [] hashInput = <<526139, 1700000089>> -> "78f3b408"
      [] hashInput = <<525303, 1700000034>> -> "7820a2c3"

\* fileHash: "" when os.Stat fails, else a digest of the file's size and of
\* its modification time in seconds.
fileHash_Exact(file) == IF file.exists THEN <<file.stamp>> ELSE <<>>

fileHash(file) == IF file.exists THEN MD5Prefix(HashInput(file.stamp)) ELSE ""

IsProcessed(t, file) ==
    /\ file.path \in DOMAIN t.processed
    /\ t.processed[file.path].Status = StatusSuccess
    /\ t.processed[file.path].Hash = fileHash(file)

MarkSuccess(t, file, outputPath) ==
    [t EXCEPT !.processed =
        Put(t.processed, file.path,
            [Status |-> StatusSuccess, Hash |-> fileHash(file), Output |-> outputPath])]

\* An entry without output path.
NoOutput == <<EmptyString, EmptyString>>

MarkError(t, file) ==
    [t EXCEPT !.processed =
        Put(t.processed, file.path,
            [Status |-> StatusError, Hash |-> fileHash(file), Output |-> NoOutput])]

\* The entries ClearFailed deletes.
FailedEntries(t) == {p \in DOMAIN t.processed : t.processed[p].Status = StatusError}

ClearFailed_All(t) == [t EXCEPT !.processed = EmptyMap]

ClearFailed(t) ==
    [t EXCEPT !.processed = [p \in DOMAIN t.processed \ FailedEntries(t) |-> t.processed[p]]]

\* The count ClearFailed returns.
ClearFailedCount(t) == Cardinality(FailedEntries(t))

\* The error log on disk: absent, or its lines (the base name of each file).
NoLog == [state |-> "absent", lines |-> <<>>]

\* NewErrorLogger: the log file is opened with O_CREATE|O_APPEND.
NewErrorLogger(log) == [state |-> "ok", lines |-> log.lines]

\* NewErrorLogger returns an error: the directory cannot be made or the log
\* file cannot be opened.
ErrorLoggerError_Never(fs) == FALSE

ErrorLoggerError(fs) == "log" \in fs

\* ErrorLogger.Log
Log_Dropped(log, filePath) == log

Log(log, filePath) == [log EXCEPT !.lines = Append(log.lines, filePath)]

\* ErrorLogger.Log under the faults fs: the result of WriteString is dropped.
LogLine(fs, log, filePath) == IF "append" \in fs THEN log ELSE Log(log, filePath)

(***************************************************************************)
(* internal/anonymizer processor: grouping.                                *)
(***************************************************************************)

\* "UNKNOWN"
Unknown == <<85, 78, 75, 78, 79, 87, 78>>

NoHash == <<EmptyString, EmptyString, EmptyString>>

\* The grouping keys: an identity hash, "PID:" + pid, or "UNKNOWN".
HashKey(h) == [kind |-> "hash", hash |-> h, pid |-> EmptyString]
PIDKey(pid) == [kind |-> "PID:", hash |-> NoHash, pid |-> pid]
UnknownKey == [kind |-> "UNKNOWN", hash |-> NoHash, pid |-> EmptyString]

\* The PatientGroup a file opens when its key is new.
GroupOf(file, s) ==
    IF ~file.readable
    THEN [Key |-> UnknownKey, Name |-> EmptyString, DOB |-> EmptyString,
          PID |-> EmptyString]
    ELSE LET name == GetPatientName(file.ds)
             dob == GetPatientBirthDate(file.ds)
             id == GetPatientID(file.ds)
             pid == IF id = EmptyString THEN Unknown ELSE id
         IN  [Key |-> IF IsValidIdentity(name, dob)
                      THEN HashKey(CreateIdentityHash(name, dob, s))
                      ELSE PIDKey(pid),
              Name |-> name, DOB |-> dob, PID |-> pid]

\* The paths of the files with this key, in the order of files.
RECURSIVE FilesWithKey(_, _, _)
FilesWithKey(files, key, s) ==
    IF files = <<>> THEN <<>>
    ELSE (IF GroupOf(Head(files), s).Key = key THEN <<Head(files).path>> ELSE <<>>)
         \o FilesWithKey(Tail(files), key, s)

\* The first file with this key.
FirstWithKey(files, key, s) ==
    files[CHOOSE i \in 1..Len(files) :
            /\ GroupOf(files[i], s).Key = key
            /\ \A k \in 1..(i - 1) : GroupOf(files[k], s).Key # key]

\* part_000 214-261: the groups, as the map the function builds.
groupFilesByPatient(files, s) ==
    LET keys == {GroupOf(files[i], s).Key : i \in 1..Len(files)}
    IN  [key \in keys |->
            LET g == GroupOf(FirstWithKey(files, key, s), s)
            IN  [Key |-> key, Name |-> g.Name, DOB |-> g.DOB, PID |-> g.PID,
                 Files |-> FilesWithKey(files, key, s)]]

\* The slices a range over the map can produce.
Orderings(m) ==
    {sq \in [1..Cardinality(DOMAIN m) -> {m[k] : k \in DOMAIN m}] :
        \A a, b \in 1..Cardinality(DOMAIN m) : a # b => sq[a] # sq[b]}

NoStats ==
    [Success |-> 0, Failed |-> 0, Skipped |-> 0, IdentityMatched |-> 0,
     PIDMatched |-> 0, TotalPatients |-> 0]

NoConfig ==
    [DryRun |-> FALSE, ProcessMetadata |-> FALSE, ProcessUltrasound |-> FALSE,
     RetryFailed |-> FALSE]

Configs ==
    [DryRun : BOOLEAN, ProcessMetadata : BOOLEAN, ProcessUltrasound : BOOLEAN,
     RetryFailed : BOOLEAN]

(***************************************************************************)
(* Bounds and inputs.                                                      *)
(***************************************************************************)

\* The counter is capped: a call that would allocate beyond it is not taken.
MaxCounter == 2

\* The secret key of the runs: "k1"
Salt == <<107, 49>>

\* "map"
MappingPath == <<109, 97, 112>>

\* "", " P" (trimmed to "P"), and the single Latin-1 byte 0xE9 (not valid UTF-8)
PIDs == {<<>>, <<32, 80>>, <<233>>}

\* "AB^C", "c ab" (the same person), " XYZ"
Names == {<<65, 66, 94, 67>>, <<99, 32, 97, 98>>, <<32, 88, 89, 90>>}

\* "19800101", "19000101" (a placeholder)
DOBs == {<<49, 57, 56, 48, 48, 49, 48, 49>>, <<49, 57, 48, 48, 48, 49, 48, 49>>}

\* A folder holds at most this many DICOM files.
MaxFiles == 2

\* ProcessFolder runs at most this many times over the folder.
MaxRuns == 2

\* "19800101"
DOB1980 == <<49, 57, 56, 48, 48, 49, 48, 49>>

\* "19000101" (a placeholder)
DOB1900 == <<49, 57, 48, 48, 48, 49, 48, 49>>

\* "20240315"
StudyDate2024 == <<50, 48, 50, 52, 48, 51, 49, 53>>

\* The files a folder is filled from, in path order ("a" .. "e"):
\*   a  CT,   "AB^C" 1980, no PatientID element
\*   b  US,   " XYZ" 1980, PatientID ""
\*   c  IVUS, "AB^C" with the placeholder date, PatientID " P"
\*   d  not parseable as DICOM
\*   e  CT,   "c ab" 1980 (the patient of a), PatientID " P"
Library ==
    << [path |-> <<97>>, readable |-> TRUE, pixels |-> "burned", stamp |-> StampOriginal,
        exists |-> TRUE,
        ds |-> [PatientName |-> <<65, 66, 94, 67>>, PatientBirthDate |-> DOB1980,
                Modality |-> <<67, 84>>, StudyDate |-> StudyDate2024]],
       [path |-> <<98>>, readable |-> TRUE, pixels |-> "burned", stamp |-> StampOriginal,
        exists |-> TRUE,
        ds |-> [PatientName |-> <<32, 88, 89, 90>>, PatientBirthDate |-> DOB1980,
                PatientID |-> EmptyString, Modality |-> ModalityUS,
                StudyDate |-> StudyDate2024]],
       [path |-> <<99>>, readable |-> TRUE, pixels |-> "burned", stamp |-> StampOriginal,
        exists |-> TRUE,
        ds |-> [PatientName |-> <<65, 66, 94, 67>>, PatientBirthDate |-> DOB1900,
                PatientID |-> <<32, 80>>, Modality |-> ModalityIVUS,
                StudyDate |-> <<50, 48, 50, 52>>]],
       [path |-> <<100>>, readable |-> FALSE, pixels |-> "", stamp |-> StampOriginal,
        exists |-> TRUE,
        ds |-> EmptyMap],
       [path |-> <<101>>, readable |-> TRUE, pixels |-> "burned", stamp |-> StampOriginal,
        exists |-> TRUE,
        ds |-> [PatientName |-> <<99, 32, 97, 98>>, PatientBirthDate |-> DOB1980,
                PatientID |-> <<32, 80>>, Modality |-> <<67, 84>>,
                StudyDate |-> StudyDate2024]] >>

\* dicom.FindDicomFiles: the DICOM files of the folder, sorted by path.
RECURSIVE FindDicomFiles(_, _)
FindDicomFiles(S, first) ==
    IF first > Len(Library) THEN <<>>
    ELSE (IF first \in S THEN <<Library[first]>> ELSE <<>>) \o FindDicomFiles(S, first + 1)

Folders ==
    {FindDicomFiles(S, 1) : S \in {T \in SUBSET (1..Len(Library)) : Cardinality(T) <= MaxFiles}}

(***************************************************************************)
(* State.                                                                  *)
(***************************************************************************)

VARIABLES
    salt,           \* PseudonymizationMapper.salt
    mappingFile,    \* PseudonymizationMapper.mappingFile ("" = none)
    identityMap,    \* identity_hash -> anon_id
    pidMap,         \* patient_id -> anon_id
    reverseMap,     \* anon_id -> ReverseMapEntry
    counter,        \* PseudonymizationMapper.counter
    mappingDoc,     \* the mapping file on disk
    ret,            \* what the last GetAnonID call returned
    returned,       \* history: the ids this mapper has returned so far
    watch           \* history: one earlier call of this mapper, and what it did

VARIABLES
    inputFiles,     \* the DICOM files of the input folder, as FindDicomFiles lists them
    cfg,            \* the Config of the run
    pc,             \* where ProcessFolder stands: idle, patients, files, done
    patients,       \* the []*PatientGroup of the run
    patientIdx,     \* index of the patient loop
    fileIdx,        \* index of the file loop
    anonIDs,        \* the anonID of each patient the loop has reached
    stats,          \* the Stats of the run
    tracker,        \* the progress Tracker of the run
    progressDoc,    \* anonymized/.progress.json on disk
    errorLog,       \* anonymized/errors.log on disk
    written,        \* the anonymized files on disk, by (anonID folder, relative path)
    diskBefore,     \* history: the disk when the run started
    runs,           \* history: the runs that have returned
    progressCb,     \* ProcessFolderWithProgress with a callback (else ProcessFolder)
    totalFiles,     \* ProcessFolderWithProgress: totalFiles
    fileIndex,      \* ProcessFolderWithProgress: fileIndex
    callbacks,      \* history: the calls of progressCb in this run
    result,         \* what the run returns: stats or an error
    faults,         \* the operations the file system refuses
    marks,          \* history: the last mark of each file, and its stamp then
    trackerRet      \* what the last call of a Tracker method returned

progressVars == <<progressCb, totalFiles, fileIndex, callbacks>>
runVars ==
    <<cfg, pc, patients, patientIdx, fileIdx, anonIDs, stats, tracker, diskBefore, runs,
      progressVars, result>>
folderVars ==
    <<inputFiles, runVars, progressDoc, errorLog, written, faults, marks, trackerRet>>

VARIABLES
    mu,             \* PseudonymizationMapper.mu: the goroutine holding it
    calls           \* the GetAnonID call of each goroutine

goVars == <<mu, calls>>

VARIABLES
    image,          \* the frame handed to Encoder.Encode: bit depth, size, pixels
    enc,            \* the Encoder: position, reconstruction plane, contexts, bits written
    stream,         \* the entropy-coded segment the encoder has flushed, in bytes
    dec,            \* a T.87 decoder reading the stream
    outputs,        \* history: what the Encode calls on this Encoder returned
    bw,             \* a BitWriter: bitBuf, bitCount and the bytes it has emitted
    ilv,            \* a sample-interleaved scan: per-component planes, contexts, bits
    temp,           \* the system temp directory and the pipeline call that uses it
    pure            \* a function of the packages applied to arguments: f, in, out

jlsVars == <<image, enc, stream, dec, outputs, bw, ilv, temp, pure>>

mapperVars == <<salt, mappingFile, identityMap, pidMap, reverseMap, counter>>
vars == <<mapperVars, mappingDoc, ret, returned, watch, folderVars, goVars, jlsVars>>

Mapper == MapperState(identityMap, pidMap, reverseMap, counter)

NoReturn == [id |-> EmptyString, method |-> ""]
NoWatch ==
    [set |-> FALSE, pid |-> <<>>, name |-> <<>>, dob |-> <<>>, id |-> <<>>,
     method |-> "", newIdentity |-> FALSE, generated |-> FALSE]

\* The goroutines that call the mapper.
Goroutines == {"g1", "g2", "g3"}

\* A goroutine that has not called GetAnonID.
NoCall ==
    [pc |-> "idle", pid |-> <<>>, name |-> <<>>, dob |-> <<>>, found |-> "",
     id |-> <<>>, method |-> "", generated |-> FALSE]

\* NewPseudonymizationMapper(mappingFile, salt) on the current disk.
NewMapperState(file, s, doc) ==
    /\ salt' = s
    /\ mappingFile' = file
    /\ LET m == IF file # EmptyString THEN load(doc) ELSE EmptyMapper
       IN  /\ identityMap' = m.identityMap
           /\ pidMap' = m.pidMap
           /\ reverseMap' = m.reverseMap
           /\ counter' = m.counter
    /\ ret' = NoReturn
    /\ returned' = {}
    /\ watch' = NoWatch

\* The first mapper is constructed on a disk with no mapping file.
InitMapper ==
    /\ mappingDoc = NoFile
    /\ salt = Salt
    /\ mappingFile = MappingPath
    /\ identityMap = EmptyMap
    /\ pidMap = EmptyMap
    /\ reverseMap = EmptyMap
    /\ counter = 0
    /\ ret = NoReturn
    /\ returned = {}
    /\ watch = NoWatch
    /\ mu = NoOwner
    /\ calls = [g \in Goroutines |-> NoCall]

\* A disk with none of the files the runs write.
NoDisk ==
    [mappingDoc |-> NoFile, progressDoc |-> NoProgress, errorLog |-> NoLog,
     written |-> EmptyMap]

\* No Tracker method has been called.
NoTrackerRet == [op |-> "", path |-> EmptyString, processed |-> FALSE, count |-> 0]

\* The run has not returned.
NoResult == [kind |-> "none", message |-> ""]

\* return stats, nil
StatsResult == [kind |-> "stats", message |-> ""]

\* return nil, fmt.Errorf(...)
ErrorResult(message) == [kind |-> "error", message |-> message]

NoImage == [bpp |-> 0, width |-> 0, height |-> 0, pixels |-> <<>>]
NoEncoder ==
    [pos |-> 0, recon |-> <<>>, contexts |-> EmptyMap, runContexts |-> <<>>, runIndex |-> 0,
     bits |-> <<>>, flushed |-> FALSE]
NoDecoder ==
    [status |-> "idle", bits |-> <<>>, pos |-> 0, out |-> <<>>, contexts |-> EmptyMap,
     runContexts |-> <<>>, RUNindex |-> 0]

NoBitWriter == [bitBuf |-> 0, bitCount |-> 0, buf |-> <<>>, bits |-> <<>>, flushed |-> FALSE]
NoPure == [f |-> "", in |-> <<>>, out |-> <<>>, done |-> FALSE]
NoTemp ==
    [pc |-> "idle", compressed |-> FALSE, files |-> {}, made |-> 0, path |-> 0,
     defers |-> {}, calls |-> 0, err |-> FALSE]
NoInterleaved ==
    [samples |-> 0, pos |-> 0, recon |-> <<>>, contexts |-> <<>>, runIndex |-> <<>>,
     bits |-> <<>>, mode |-> "", zero |-> FALSE, flushed |-> FALSE]

\* No frame is being encoded.
NoEncode ==
    /\ image = NoImage
    /\ enc = NoEncoder
    /\ stream = <<>>
    /\ dec = NoDecoder
    /\ ilv = NoInterleaved
    /\ temp = NoTemp
    /\ outputs = <<>>
    /\ bw = NoBitWriter
    /\ pure = NoPure

\* No ProcessFolder run is under way.
NoRun ==
    /\ cfg = NoConfig
    /\ pc = "idle"
    /\ patients = <<>>
    /\ patientIdx = 1
    /\ fileIdx = 1
    /\ anonIDs = <<>>
    /\ stats = NoStats
    /\ tracker = NilTracker
    /\ diskBefore = NoDisk
    /\ progressCb = FALSE
    /\ totalFiles = 0
    /\ fileIndex = 0
    /\ callbacks = <<>>
    /\ result = NoResult

\* A mapper on its own: no folder is being processed.
Init ==
    /\ InitMapper
    /\ NoEncode
    /\ inputFiles = <<>>
    /\ NoRun
    /\ runs = 0
    /\ progressDoc = NoProgress
    /\ errorLog = NoLog
    /\ written = EmptyMap
    /\ faults = {}
    /\ marks = EmptyMap
    /\ trackerRet = NoTrackerRet

\* mapper.go 175-235: one GetAnonID call, atomic under the mapper's lock.
Call(pid, name, dob, wr) ==
    LET r == GetAnonIDResult(Mapper, salt, pid, name, dob)
    IN  /\ r.m.counter <= MaxCounter
        /\ identityMap' = r.m.identityMap
        /\ pidMap' = r.m.pidMap
        /\ reverseMap' = r.m.reverseMap
        /\ counter' = r.m.counter
        /\ mappingDoc' = IF r.saved THEN save(mappingFile, mappingDoc, r.m, wr)
                         ELSE mappingDoc
        /\ ret' = [id |-> r.id, method |-> r.method]
        /\ returned' = returned \cup {r.id}
        /\ UNCHANGED <<salt, mappingFile>>

\* A call whose document write succeeds.
GetAnonID ==
    \E pid \in PIDs, name \in Names, dob \in DOBs :
        /\ Call(pid, name, dob, "ok")
        /\ UNCHANGED <<watch, folderVars, goVars, jlsVars>>

\* What the watch remembers of a call (ghost state, not part of the program).
Watched(pid, name, dob) ==
    [set |-> TRUE, pid |-> pid, name |-> name, dob |-> dob,
     id |-> ret'.id, method |-> ret'.method,
     newIdentity |-> Cardinality(DOMAIN identityMap') > Cardinality(DOMAIN identityMap),
     generated |-> counter' # counter]

\* The same call, remembered as the watched call.
GetAnonIDWatched ==
    \E pid \in PIDs, name \in Names, dob \in DOBs :
        /\ ~watch.set
        /\ Call(pid, name, dob, "ok")
        /\ watch' = Watched(pid, name, dob)
        /\ UNCHANGED <<folderVars, goVars, jlsVars>>

\* A later run with the same key: a new mapper is constructed on what the
\* earlier one left on disk.
NewPseudonymizationMapper ==
    /\ NewMapperState(MappingPath, salt, mappingDoc)
    /\ UNCHANGED <<mappingDoc, folderVars, goVars, jlsVars>>

\* One mapper lifetime.
Next == GetAnonID

Spec == Init /\ [][Next]_vars

\* One mapper lifetime, with one call watched.
NextWatched == GetAnonID \/ GetAnonIDWatched

SpecWatched == Init /\ [][NextWatched]_vars

\* Successive runs over one mapping file.
NextRuns == GetAnonID \/ NewPseudonymizationMapper

SpecRuns == Init /\ [][NextRuns]_vars

(***************************************************************************)
(* Properties of the mapper.                                               *)
(***************************************************************************)

Inputs == PIDs \X Names \X DOBs

ValidInput(name, dob) == IsValidIdentity(TrimSpace(name), TrimSpace(dob))

HashOfInput(name, dob) == CreateIdentityHash(TrimSpace(name), TrimSpace(dob), salt)

\* The step is a GetAnonID call with these arguments.
IsCall(pid, name, dob) == Call(pid, name, dob, "ok")

\* The step repeats the watched call's triple.
RepeatsWatched(pid, name, dob) ==
    /\ watch.set
    /\ pid = watch.pid /\ name = watch.name /\ dob = watch.dob
    /\ IsCall(pid, name, dob)

\* C1 as stated: on one mapper, any two GetAnonID calls with the same
\* (pid, name, dob) triple return the same anonymous id, whatever calls are
\* interleaved between them.
C1_SameTripleSameID ==
    [][\A t \in Inputs : RepeatsWatched(t[1], t[2], t[3]) => ret'.id = watch.id]_vars

\* C1 amended: on one mapper, any two GetAnonID calls with the same triple
\* return the same anonymous id provided the triple carries a valid identity
\* or a non-empty PID; a triple with neither gets a fresh id on every call.
C1_StableWhenIdentified ==
    [][\A t \in Inputs :
          RepeatsWatched(t[1], t[2], t[3])
          => IF ValidInput(t[2], t[3]) \/ TrimSpace(t[1]) # EmptyString
             THEN ret'.id = watch.id
             ELSE ret'.id # watch.id]_vars

\* " XYZ"
NameXYZ == <<32, 88, 89, 90>>

\* C1 witness: the watched call introduced " XYZ" with no PID, a later call
\* allocated another id, and the last call - again (no PID, " XYZ", DOB),
\* the only input that resolves to that identity while the pid-map is
\* empty - returned the watched id.
C1_Witness ==
    /\ watch.set /\ watch.generated /\ watch.method = MatchIdentity
    /\ watch.name = NameXYZ /\ watch.pid = EmptyString
    /\ pidMap = EmptyMap
    /\ counter > SuffixOf(watch.id)
    /\ ret.id = watch.id /\ ret.method = MatchIdentity

\* C7: if the first GetAnonID call for a valid identity carries a non-empty
\* PID P and returns X, every later call that carries P but no valid
\* identity returns X, by PID fallback.
C7_PIDFallbackAfterIdentity ==
    [][\A t \in Inputs :
          ( /\ watch.set /\ watch.newIdentity
            /\ TrimSpace(watch.pid) # EmptyString
            /\ TrimSpace(t[1]) = TrimSpace(watch.pid)
            /\ ~ValidInput(t[2], t[3])
            /\ IsCall(t[1], t[2], t[3]) )
          => (ret'.id = watch.id /\ ret'.method = MatchPID)]_vars

\* The PIDs the pid-map sends to this id.
PIDsOf(id) == {p \in DOMAIN pidMap : pidMap[p] = id}

\* C7 witness: the watched call introduced an identity with PID P, and the
\* last call returned the watched id by PID fallback while P is the only
\* PID mapped to it.
C7_Witness ==
    /\ watch.set /\ watch.newIdentity /\ watch.method = MatchIdentity
    /\ TrimSpace(watch.pid) # EmptyString
    /\ PIDsOf(watch.id) = {TrimSpace(watch.pid)}
    /\ ret.id = watch.id /\ ret.method = MatchPID

\* The watched call carried only a PID and generated its id.
WatchedPIDOnly == watch.set /\ watch.method = MatchPID /\ watch.generated

\* C8 as stated: if a first call supplies only a PID P and generates X, a
\* later call supplying a valid identity together with P returns X and
\* inserts identity-hash -> X, without generating a new id.
C8_IdentityAdoptsPID ==
    [][\A t \in Inputs :
          ( /\ WatchedPIDOnly
            /\ TrimSpace(t[1]) = TrimSpace(watch.pid)
            /\ ValidInput(t[2], t[3])
            /\ IsCall(t[1], t[2], t[3]) )
          => ( /\ ret'.id = watch.id
               /\ HashOfInput(t[2], t[3]) \in DOMAIN identityMap'
               /\ identityMap'[HashOfInput(t[2], t[3])] = watch.id
               /\ counter' = counter )]_vars

\* C8 amended: if a first call supplies only a PID P and generates X, a
\* later call supplying P together with a valid identity that the
\* identity-map does not hold yet returns X and inserts identity-hash -> X,
\* without generating a new id; an identity already mapped keeps its own id.
C8_NewIdentityAdoptsPID ==
    [][\A t \in Inputs :
          ( /\ WatchedPIDOnly
            /\ TrimSpace(t[1]) = TrimSpace(watch.pid)
            /\ ValidInput(t[2], t[3])
            /\ IsCall(t[1], t[2], t[3]) )
          => IF HashOfInput(t[2], t[3]) \notin DOMAIN identityMap
             THEN /\ ret'.id = watch.id
                  /\ identityMap' = Put(identityMap, HashOfInput(t[2], t[3]), watch.id)
                  /\ counter' = counter
             ELSE /\ ret'.id = identityMap[HashOfInput(t[2], t[3])]
                  /\ identityMap' = identityMap
                  /\ counter' = counter]_vars

\* C8 witness: the watched PID-only call generated X, and the last call, by
\* identity, returned X, which the identity-map now holds.
C8_Witness ==
    /\ WatchedPIDOnly
    /\ ret.id = watch.id /\ ret.method = MatchIdentity
    /\ \E h \in DOMAIN identityMap : identityMap[h] = watch.id

\* C9: the reverse-map is consistent with the forward maps: every id that is
\* a value of identity-map or pid-map is a key of reverse-map, every hash
\* and PID is listed under the id it maps to, and reverse-map lists nothing
\* else.
C9_ReverseMapConsistent ==
    /\ \A h \in DOMAIN identityMap :
          /\ identityMap[h] \in DOMAIN reverseMap
          /\ contains(reverseMap[identityMap[h]].IdentityHashes, h)
    /\ \A p \in DOMAIN pidMap :
          /\ pidMap[p] \in DOMAIN reverseMap
          /\ contains(reverseMap[pidMap[p]].PatientIDs, p)
    /\ \A a \in DOMAIN reverseMap :
          /\ \A i \in 1..Len(reverseMap[a].IdentityHashes) :
                LET h == reverseMap[a].IdentityHashes[i]
                IN  h \in DOMAIN identityMap /\ identityMap[h] = a
          /\ \A i \in 1..Len(reverseMap[a].PatientIDs) :
                LET p == reverseMap[a].PatientIDs[i]
                IN  p \in DOMAIN pidMap /\ pidMap[p] = a

\* The ids stored in the mapper's maps.
StoredIDs ==
    {identityMap[h] : h \in DOMAIN identityMap}
        \cup {pidMap[p] : p \in DOMAIN pidMap} \cup DOMAIN reverseMap

\* C10: within a mapper lifetime the counter never decreases, each newly
\* generated id has a numeric suffix strictly greater than that of every id
\* already stored or previously returned, and counter >= the suffix of every
\* stored id in every state.
C10_CounterMonotone ==
    /\ [](\A id \in StoredIDs \cup returned : SuffixOf(id) <= counter)
    /\ [][ /\ counter' >= counter
           /\ ret'.id \notin StoredIDs \cup returned
              => \A id \in StoredIDs \cup returned : SuffixOf(ret'.id) > SuffixOf(id) ]_vars

\* C10 witness: several ids have been returned and the last call returned
\* the one the counter now stands at.
C10_Witness ==
    /\ Cardinality(returned) >= 2
    /\ counter >= 2
    /\ SuffixOf(ret.id) = counter

\* C2: a mapper constructed on the document an earlier mapper persisted
\* starts with that mapper's identity-map, pid-map, reverse-map and counter,
\* and every input the earlier mapper resolved without allocating resolves
\* to the same id.
C2_RoundTrip ==
    [][NewPseudonymizationMapper
       => /\ identityMap' = identityMap
          /\ pidMap' = pidMap
          /\ reverseMap' = reverseMap
          /\ counter' = counter
          /\ \A t \in Inputs :
                LET before == GetAnonIDResult(Mapper, salt, t[1], t[2], t[3])
                    after == GetAnonIDResult(
                                 MapperState(identityMap', pidMap', reverseMap', counter'),
                                 salt', t[1], t[2], t[3])
                IN  before.m.counter = counter => after.id = before.id]_vars

(***************************************************************************)
(* internal/anonymizer processor: ProcessFolder over one input folder.     *)
(***************************************************************************)

\* What the runs leave on disk.
Disk ==
    [mappingDoc |-> mappingDoc, progressDoc |-> progressDoc,
     errorLog |-> errorLog, written |-> written]

\* The folder diskBefore any run: its DICOM files, and no anonymized folder.
InitFolder ==
    /\ InitMapper
    /\ NoEncode
    /\ inputFiles \in Folders
    /\ NoRun
    /\ runs = 0
    /\ progressDoc = NoProgress
    /\ errorLog = NoLog
    /\ written = EmptyMap
    /\ faults = {}
    /\ marks = EmptyMap
    /\ trackerRet = NoTrackerRet

\* The file of the input folder at this path.
FileAt(filePath) ==
    inputFiles[CHOOSE k \in 1..Len(inputFiles) : inputFiles[k].path = filePath]

\* part_000 57-108: the run is set up - mapper, tracker and error log (the
\* last two only when not a dry run), the files found and grouped.
ProcessFolder ==
    \E c \in Configs, cb \in BOOLEAN :
        /\ pc = "idle"
        /\ runs < MaxRuns
        /\ NewMapperState(MappingPath, Salt, mappingDoc)
        /\ cfg' = c
        /\ diskBefore' = Disk
        /\ progressCb' = cb
        /\ fileIndex' = 0
        /\ callbacks' = <<>>
        /\ patientIdx' = 1
        /\ fileIdx' = 1
        /\ anonIDs' = <<>>
        /\ stats' = NoStats
        /\ IF ~c.DryRun /\ ErrorLoggerError(faults)
           THEN /\ tracker' = NewTracker(progressDoc)
                /\ patients' = <<>>
                /\ totalFiles' = 0
                /\ pc' = "done"
                /\ result' = ErrorResult("could not create error logger")
                /\ UNCHANGED <<progressDoc, errorLog>>
           ELSE /\ LET opened == NewTracker(progressDoc)
                       cleared == ClearFailed(opened)
                   IN  IF c.DryRun
                       THEN /\ tracker' = NilTracker
                            /\ UNCHANGED <<progressDoc, errorLog>>
                       ELSE /\ errorLog' = NewErrorLogger(errorLog)
                            /\ IF c.RetryFailed
                               THEN /\ tracker' = cleared
                                    /\ progressDoc' =
                                         IF FailedEntries(opened) # {}
                                         THEN SaveProgress(faults, cleared.processed)
                                         ELSE progressDoc
                               ELSE /\ tracker' = opened
                                    /\ UNCHANGED progressDoc
                /\ totalFiles' = IF cb /\ ~c.DryRun THEN Len(inputFiles) ELSE 0
                /\ IF Len(inputFiles) = 0
                   THEN /\ patients' = <<>>
                        /\ pc' = "done"
                        /\ result' = StatsResult
                   ELSE /\ patients' \in Orderings(groupFilesByPatient(inputFiles, Salt))
                        /\ pc' = "patients"
                        /\ result' = NoResult
        /\ UNCHANGED <<mappingDoc, inputFiles, written, runs, goVars, jlsVars, faults,
                   marks, trackerRet>>

\* The matching counters after a GetAnonID that returned this method.
CountMatch(st, method) ==
    IF method = MatchIdentity
    THEN [st EXCEPT !.IdentityMatched = st.IdentityMatched + 1]
    ELSE [st EXCEPT !.PIDMatched = st.PIDMatched + 1]

\* part_000 264-294: one iteration of the loop of dryRun.
DryRunPatient ==
    /\ pc = "patients"
    /\ cfg.DryRun
    /\ patientIdx <= Len(patients)
    /\ LET patient == patients[patientIdx]
       IN  /\ Call(patient.PID, patient.Name, patient.DOB, "ok")
           /\ stats' = [CountMatch(stats, ret'.method) EXCEPT
                           !.Skipped = stats.Skipped + Len(patient.Files)]
           /\ anonIDs' = Append(anonIDs, ret'.id)
           /\ patientIdx' = patientIdx + 1
    /\ UNCHANGED <<watch, goVars, jlsVars, inputFiles, cfg, pc, patients, fileIdx, tracker, diskBefore,
                   runs, progressVars, result, progressDoc, errorLog, written, faults,
                   marks, trackerRet>>

\* part_000 114-132: the head of one iteration of the patient loop.
ProcessPatient ==
    /\ pc = "patients"
    /\ ~cfg.DryRun
    /\ patientIdx <= Len(patients)
    /\ LET patient == patients[patientIdx]
       IN  /\ Call(patient.PID, patient.Name, patient.DOB, "ok")
           /\ stats' = CountMatch(stats, ret'.method)
           /\ anonIDs' = Append(anonIDs, ret'.id)
    /\ pc' = "files"
    /\ fileIdx' = 1
    /\ UNCHANGED <<watch, goVars, jlsVars, inputFiles, cfg, patients, patientIdx, tracker, diskBefore,
                   runs, progressVars, result, progressDoc, errorLog, written, faults,
                   marks, trackerRet>>

\* The file the file loop stands at.
CurrentFile == FileAt(patients[patientIdx].Files[fileIdx])

\* filepath.Join(outputFolder, anonID, relPath), below the anonymized folder.
OutputPath(anonID, file) == <<anonID, file.path>>

\* part_000 152-159: the modality is probed only when ultrasound processing
\* is enabled.
ProbeUltrasound(c, file) ==
    IF c.ProcessUltrasound THEN file.readable /\ IsUltrasound(file.ds) ELSE FALSE

\* part_000 385: fileIndex++
NextFileIndex_Stuck(index) == index

NextFileIndex(index) == index + 1

\* One call progressCb(current, total, filepath.Base(filePath), status).
Callback(current, total, file, status) ==
    [current |-> current, total |-> total, filename |-> file.path, status |-> status]

\* part_000 134-190 and 384-460: one iteration of the file loop.
ProcessFile ==
    /\ pc = "files"
    /\ LET patient == patients[patientIdx]
           file == CurrentFile
           anonID == anonIDs[patientIdx]
           outputPath == OutputPath(anonID, file)
           isUS == ProbeUltrasound(cfg, file)
           processed == IF isUS /\ cfg.ProcessUltrasound
                        THEN AnonymizeUltrasound(file, anonID)
                        ELSE AnonymizeMetadata(file, anonID)
           marked == IF processed.err THEN MarkError(tracker, file)
                     ELSE MarkSuccess(tracker, file, outputPath)
           index == NextFileIndex(fileIndex)
           processing == Callback(index, totalFiles, file, "processing")
       IN  /\ fileIndex' = IF progressCb THEN index ELSE fileIndex
           /\ IF ~tracker.nil /\ IsProcessed(tracker, file)
              THEN /\ stats' = [stats EXCEPT !.Skipped = stats.Skipped + 1]
                   /\ callbacks' =
                        IF progressCb
                        THEN Append(callbacks, Callback(index, totalFiles, file, "skipped"))
                        ELSE callbacks
                   /\ UNCHANGED <<tracker, progressDoc, errorLog, written, marks>>
              ELSE IF ~(isUS /\ cfg.ProcessUltrasound) /\ ~cfg.ProcessMetadata
              THEN /\ stats' = [stats EXCEPT !.Skipped = stats.Skipped + 1]
                   /\ callbacks' =
                        IF progressCb
                        THEN callbacks \o
                             <<processing, Callback(index, totalFiles, file, "skipped")>>
                        ELSE callbacks
                   /\ UNCHANGED <<tracker, progressDoc, errorLog, written, marks>>
              ELSE /\ callbacks' =
                        IF progressCb
                        THEN callbacks \o
                             <<processing,
                               Callback(index, totalFiles, file,
                                        IF processed.err THEN "failed" ELSE "success")>>
                        ELSE callbacks
                   /\ stats' = IF processed.err
                               THEN [stats EXCEPT !.Failed = stats.Failed + 1]
                               ELSE [stats EXCEPT !.Success = stats.Success + 1]
                   /\ written' = IF processed.err THEN written
                                 ELSE Put(written, outputPath,
                                          [ds |-> processed.ds, pixels |-> processed.pixels])
                   /\ tracker' = IF tracker.nil THEN tracker ELSE marked
                   /\ marks' = IF tracker.nil THEN marks
                               ELSE Put(marks, file.path,
                                        [Status |-> marked.processed[file.path].Status,
                                         stamp |-> file.stamp])
                   /\ progressDoc' = IF tracker.nil THEN progressDoc
                                     ELSE SaveProgress(faults, marked.processed)
                   /\ errorLog' = IF processed.err /\ errorLog.state = "ok"
                                  THEN LogLine(faults, errorLog, file.path)
                                  ELSE errorLog
           /\ IF fileIdx < Len(patient.Files)
              THEN /\ fileIdx' = fileIdx + 1
                   /\ UNCHANGED <<pc, patientIdx>>
              ELSE /\ fileIdx' = 1
                   /\ patientIdx' = patientIdx + 1
                   /\ pc' = "patients"
    /\ UNCHANGED <<mapperVars, mappingDoc, ret, returned, watch, goVars, jlsVars, inputFiles, cfg,
                   patients, anonIDs, diskBefore, runs, progressCb, totalFiles, result,
                   faults, trackerRet>>

\* part_000 194-210 and 286-293: the loop is over, the Stats are completed.
ProcessFolderSummary ==
    /\ pc = "patients"
    /\ patientIdx > Len(patients)
    /\ stats' = [stats EXCEPT !.TotalPatients = Len(patients)]
    /\ pc' = "done"
    /\ result' = StatsResult
    /\ UNCHANGED <<mapperVars, mappingDoc, ret, returned, watch, goVars, jlsVars, inputFiles, cfg,
                   patients, patientIdx, fileIdx, anonIDs, tracker, diskBefore, runs,
                   progressVars, progressDoc, errorLog, written, faults, marks, trackerRet>>

\* ProcessFolder returns: mapper, tracker and the other locals are gone, the
\* disk stays.
ProcessFolderReturn ==
    /\ pc = "done"
    /\ identityMap' = EmptyMap
    /\ pidMap' = EmptyMap
    /\ reverseMap' = EmptyMap
    /\ counter' = 0
    /\ ret' = NoReturn
    /\ returned' = {}
    /\ cfg' = NoConfig
    /\ pc' = "idle"
    /\ patients' = <<>>
    /\ patientIdx' = 1
    /\ fileIdx' = 1
    /\ anonIDs' = <<>>
    /\ stats' = NoStats
    /\ tracker' = NilTracker
    /\ diskBefore' = NoDisk
    /\ progressCb' = FALSE
    /\ totalFiles' = 0
    /\ fileIndex' = 0
    /\ callbacks' = <<>>
    /\ result' = NoResult
    /\ runs' = runs + 1
    /\ UNCHANGED <<salt, mappingFile, watch, goVars, jlsVars>>
    /\ UNCHANGED <<mappingDoc, inputFiles, progressDoc, errorLog, written, faults,
                   marks, trackerRet>>

NextFolder ==
    \/ ProcessFolder
    \/ DryRunPatient
    \/ ProcessPatient
    \/ ProcessFile
    \/ ProcessFolderSummary
    \/ ProcessFolderReturn

SpecFolder == InitFolder /\ [][NextFolder]_vars

(***************************************************************************)
(* Properties of the folder run.                                           *)
(***************************************************************************)

\* The group carries a valid identity, as groupFilesByPatient judges it.
ValidGroup(g) == g.Key.kind = "hash"

\* Every file of the group carries an empty PatientID.
EmptyPIDGroup(g) ==
    \A k \in 1..Len(g.Files) : GetPatientID(FileAt(g.Files[k]).ds) = EmptyString

\* C3 as stated: in a folder run, two patient groups with different valid
\* identities whose files carry an empty PatientID are assigned different
\* anonymous ids.
C3_DistinctIdentitiesDistinctIDs ==
    \A a, b \in 1..Len(anonIDs) :
        ( /\ a # b
          /\ ValidGroup(patients[a]) /\ ValidGroup(patients[b])
          /\ patients[a].Key # patients[b].Key
          /\ EmptyPIDGroup(patients[a]) /\ EmptyPIDGroup(patients[b]) )
        => anonIDs[a] # anonIDs[b]

\* C4 as stated: during and after a dry run the disk - mapping document
\* (with its counter and mappings), progress file, error log and anonymized
\* files - is what it was when the run started.
C4_DryRunWritesNothing ==
    (pc # "idle" /\ cfg.DryRun) => Disk = diskBefore

\* C5 as stated: with ultrasound processing disabled, the file loop skips
\* every ultrasound file: it is counted as skipped and nothing is written
\* for it.
C5_UltrasoundSkippedWhenDisabled ==
    [][( /\ pc = "files"
         /\ ~cfg.ProcessUltrasound
         /\ CurrentFile.readable /\ IsUltrasound(CurrentFile.ds) )
       => (stats'.Skipped = stats.Skipped + 1 /\ written' = written)]_vars

\* C6 as stated: every anonymized file on disk has PatientID equal to the
\* anonymous id it was processed under (the id that names its folder).
C6_WrittenPatientIDIsAnonID ==
    \A o \in DOMAIN written :
        /\ "PatientID" \in DOMAIN written[o].ds
        /\ written[o].ds["PatientID"] = o[1]

(***************************************************************************)
(* Concurrent GetAnonID calls on one mapper.                               *)
(***************************************************************************)

\* The requests the goroutines make: "" or " P"; "AB^C" or " XYZ"; both dates.
ConcurrentInputs ==
    {<<>>, <<32, 80>>} \X {<<65, 66, 94, 67>>, <<32, 88, 89, 90>>} \X DOBs

\* go mapper.GetAnonID(pid, name, dob)
Go(g) ==
    \E t \in ConcurrentInputs :
        /\ calls[g].pc = "idle"
        /\ calls' = [calls EXCEPT ![g] = [NoCall EXCEPT !.pc = "called", !.pid = t[1],
                                                       !.name = t[2], !.dob = t[3]]]
        /\ UNCHANGED <<mapperVars, mappingDoc, ret, returned, watch, folderVars, jlsVars, mu>>

\* mapper.go 176: m.mu.Lock()
Lock(g) ==
    /\ calls[g].pc = "called"
    /\ CanLock(mu)
    /\ mu' = g
    /\ calls' = [calls EXCEPT ![g].pc = "locked"]
    /\ UNCHANGED <<mapperVars, mappingDoc, ret, returned, watch, folderVars, jlsVars>>

\* mapper.go 179-207: the arguments are trimmed and the maps are looked up.
Lookup(g) ==
    /\ calls[g].pc = "locked"
    /\ calls' = [calls EXCEPT ![g].pc = "looked",
                              ![g].found = LookupIdentity(Mapper, salt, calls[g].pid,
                                                          calls[g].name, calls[g].dob)]
    /\ UNCHANGED <<mapperVars, mappingDoc, ret, returned, watch, folderVars, jlsVars, mu>>

\* mapper.go 188-234 and 177: the maps are written and saved, the call
\* returns and the deferred Unlock runs.
Return(g) ==
    /\ calls[g].pc = "looked"
    /\ LET c == calls[g]
           r == CompleteCall(c.found, Mapper, salt, c.pid, c.name, c.dob)
       IN  /\ r.m.counter <= MaxCounter
           /\ identityMap' = r.m.identityMap
           /\ pidMap' = r.m.pidMap
           /\ reverseMap' = r.m.reverseMap
           /\ counter' = r.m.counter
           /\ mappingDoc' = IF r.saved THEN save(mappingFile, mappingDoc, r.m, "ok")
                            ELSE mappingDoc
           /\ ret' = [id |-> r.id, method |-> r.method]
           /\ returned' = returned \cup {r.id}
           /\ calls' = [calls EXCEPT ![g].pc = "returned", ![g].id = r.id,
                                     ![g].method = r.method,
                                     ![g].generated = r.m.counter # counter]
    /\ mu' = NoOwner
    /\ UNCHANGED <<salt, mappingFile, watch, folderVars, jlsVars>>

NextConcurrent ==
    \E g \in Goroutines : Go(g) \/ Lock(g) \/ Lookup(g) \/ Return(g)

SpecConcurrent == Init /\ [][NextConcurrent]_vars

\* The identity hash of a goroutine's request, NoHash without valid identity.
HashOfCall(c) ==
    IF c.pc # "idle" /\ ValidInput(c.name, c.dob) THEN HashOfInput(c.name, c.dob)
    ELSE NoHash

\* The goroutines that asked for this identity and have their answer.
Answered(h) == {g \in Goroutines : calls[g].pc = "returned" /\ HashOfCall(calls[g]) = h}

\* The goroutines that have made a request.
Started == {g \in Goroutines : calls[g].pc # "idle"}

GetAnonIDWriteFails ==
    \E pid \in PIDs, name \in Names, dob \in DOBs, wr \in WriteOutcomes \ {"ok"} :
        /\ GetAnonIDResult(Mapper, salt, pid, name, dob).saved
        /\ Call(pid, name, dob, wr)
        /\ UNCHANGED <<watch, folderVars, goVars, jlsVars>>

NextWrites == GetAnonID \/ GetAnonIDWriteFails

SpecWrites == Init /\ [][NextWrites]_vars

\* C12 as stated: a GetAnonID call that changes a map or the counter persists
\* before it returns - after a successful write a mapper loaded from the
\* document has the in-memory maps and counter - and a call whose write
\* fails still returns its id and keeps the state it computed in memory.
C12_ChangePersisted ==
    [][\A t \in Inputs, wr \in WriteOutcomes :
          (Call(t[1], t[2], t[3], wr) /\ Mapper' # Mapper)
          => /\ ret'.id # EmptyString
             /\ Mapper' = GetAnonIDResult(Mapper, salt, t[1], t[2], t[3]).m
             /\ (wr = "ok" => load(mappingDoc') = Mapper')]_vars

(***************************************************************************)
(* The order of the patient groups.                                        *)
(***************************************************************************)

\* The keys of the groups in the order in which their first file appears.
RECURSIVE KeysInOrder(_, _, _)
KeysInOrder(files, s, seen) ==
    IF files = <<>> THEN <<>>
    ELSE LET key == GroupOf(Head(files), s).Key
         IN  (IF key \in seen THEN <<>> ELSE <<key>>)
             \o KeysInOrder(Tail(files), s, seen \cup {key})

\* The groups in insertion order of their first file.
InsertionOrder(files, s) ==
    LET keys == KeysInOrder(files, s, {})
    IN  [i \in 1..Len(keys) |-> groupFilesByPatient(files, s)[keys[i]]]

\* The ids GetAnonID returns when called for these groups in this order.
RECURSIVE AssignIDs(_, _, _)
AssignIDs(m, s, groups) ==
    IF groups = <<>> THEN <<>>
    ELSE LET r == GetAnonIDResult(m, s, Head(groups).PID, Head(groups).Name,
                                  Head(groups).DOB)
         IN  <<r.id>> \o AssignIDs(r.m, s, Tail(groups))

\* C14 as stated: the patient groups of a run are in insertion order of
\* their first file in the sorted file list, and GetAnonID is called in that
\* order, so each patient is assigned the id that order gives from the
\* mapping state the run started with.
C14_GroupsInInsertionOrder ==
    pc # "idle" =>
        LET ordered == InsertionOrder(inputFiles, Salt)
            ids == AssignIDs(load(diskBefore.mappingDoc), Salt, ordered)
        IN  /\ patients = ordered
            /\ \A i \in 1..Len(anonIDs), k \in 1..Len(ordered) :
                  patients[i].Key = ordered[k].Key => anonIDs[i] = ids[k]

(***************************************************************************)
(* The progress callbacks of ProcessFolderWithProgress.                    *)
(***************************************************************************)

\* Every callback carries the running index of a file and the file count.
CallbackInRange(c) ==
    /\ c.total = Len(inputFiles)
    /\ c.current \in 1..c.total

\* C15 as stated: the current argument of successive progress callbacks is
\* strictly increasing - each callback carries a larger value than the one
\* before it - and never exceeds total, the number of files of all groups.
C15_CurrentStrictlyIncreasing ==
    \A i \in 1..Len(callbacks) :
        /\ CallbackInRange(callbacks[i])
        /\ i > 1 => callbacks[i - 1].current < callbacks[i].current

\* C15, amended: current is the 1-based running file index and never
\* exceeds total, the number of files of all groups; it is non-decreasing
\* over successive callbacks: the "processing" callback of a file and the
\* callback with its outcome carry the same value, and the first callback
\* of the next file carries that value plus one.
C15_CurrentNonDecreasing ==
    \A i \in 1..Len(callbacks) :
        /\ CallbackInRange(callbacks[i])
        /\ i = 1 => callbacks[i].current = 1
        /\ i > 1 =>
             \/ /\ callbacks[i].current = callbacks[i - 1].current
                /\ callbacks[i].filename = callbacks[i - 1].filename
                /\ callbacks[i - 1].status = "processing"
                /\ callbacks[i].status \in {"success", "failed", "skipped"}
             \/ /\ callbacks[i].current = callbacks[i - 1].current + 1
                /\ callbacks[i].filename # callbacks[i - 1].filename
                /\ callbacks[i - 1].status \in {"success", "failed", "skipped"}

\* A run reported a processed file with two callbacks, then went on to the
\* next file.
C15_Witness ==
    /\ Len(callbacks) >= 3
    /\ callbacks[1].status = "processing"
    /\ callbacks[2].current = 1
    /\ callbacks[3].current = 2

(***************************************************************************)
(* Folder runs on a file system that refuses some operations.              *)
(***************************************************************************)

\* "log": the error log cannot be created or opened; "progress": writes of
\* the progress file are cut short; "append": writes to the open error log
\* fail.
FaultKinds == {"log", "progress", "append"}

\* Between two runs the file system starts or stops refusing operations.
Fault ==
    /\ pc = "idle"
    /\ runs < MaxRuns
    /\ \E fs \in SUBSET FaultKinds :
          /\ fs # faults
          /\ faults' = fs
    /\ UNCHANGED <<mapperVars, mappingDoc, ret, returned, watch, goVars, jlsVars, inputFiles,
                   runVars, progressDoc, errorLog, written, marks, trackerRet>>

NextFailures == NextFolder \/ Fault

SpecFailures == InitFolder /\ [][NextFailures]_vars

\* C16 as stated: a folder run returns an error only when file discovery
\* fails; every other failure, among them a failure to set up or write the
\* progress file or the error log, leaves the run returning stats.
\* (FindDicomFiles never returns an error: its walk function answers nil to
\* every error it is handed.)
C16_ErrorOnlyFromDiscovery ==
    pc = "done" => result = StatsResult

\* C16, amended: a folder run returns an error only when file discovery
\* fails or, in a run that is not a dry run, the error log cannot be set
\* up; every other failure leaves the run returning stats.
C16_ErrorOnlyFromLoggerSetup ==
    pc = "done" =>
        /\ result.kind \in {"stats", "error"}
        /\ result.kind = "error" <=> ("log" \in faults /\ ~cfg.DryRun)

\* A run returned stats although a file failed, the progress file could not
\* be written and the line for the error log was lost.
C16_Witness ==
    /\ pc = "done"
    /\ result = StatsResult
    /\ stats.Failed > 0
    /\ progressDoc = CorruptProgress
    /\ errorLog = NewErrorLogger(NoLog)
    /\ faults = {"progress", "append"}

(***************************************************************************)
(* The accounting of a folder run.                                         *)
(***************************************************************************)

\* The files the run has accounted for.
Accounted(st) == st.Success + st.Failed + st.Skipped

\* The file loop stands at a file whose pipeline is going to fail: the file
\* cannot be parsed and is handed to the metadata pipeline.
AtFailingFile ==
    /\ pc = "files"
    /\ ~CurrentFile.readable
    /\ cfg.ProcessMetadata

\* C17: when a run that is not a dry run returns its stats, Success + Failed
\* + Skipped is the number of discovered files; a file whose pipeline fails
\* is marked error in the tracker, appended to the error log and counted
\* once as failed, and the loop goes on to the files after it.
C17_EveryFileCounted ==
    [][ /\ (pc' = "done" /\ ~cfg'.DryRun /\ result' = StatsResult)
           => Accounted(stats') = Len(inputFiles)
        /\ AtFailingFile
           => /\ CurrentFile.path \in DOMAIN tracker'.processed
              /\ tracker'.processed[CurrentFile.path].Status = StatusError
              /\ progressDoc'.Files = tracker'.processed
              /\ errorLog'.lines = Append(errorLog.lines, CurrentFile.path)
              /\ stats' = [stats EXCEPT !.Failed = stats.Failed + 1]
              /\ Accounted(stats') = Accounted(stats) + 1
              /\ pc' \in {"files", "patients"} ]_vars

\* A run in which the first file failed and the second was processed.
C17_Witness ==
    /\ pc = "done"
    /\ result = StatsResult
    /\ Len(callbacks) = 4
    /\ callbacks[2].status = "failed"
    /\ callbacks[4].status = "success"
    /\ stats.Failed = 1
    /\ stats.Success = 1
    /\ errorLog.lines = <<callbacks[2].filename>>
    /\ tracker.processed[callbacks[2].filename].Status = StatusError
    /\ tracker.processed[callbacks[4].filename].Status = StatusSuccess

(***************************************************************************)
(* Resumed runs over a folder whose files change between the runs.         *)
(***************************************************************************)

\* Between two runs a file of the folder is resized, rewritten in place
\* within the second of its modification time, or replaced.
Touch ==
    /\ pc = "idle"
    /\ runs \in 1..(MaxRuns - 1)
    /\ \E k \in 1..Len(inputFiles) :
          \E stamp \in {StampResized, StampRewritten, StampReplaced} :
              /\ inputFiles[k].stamp = StampOriginal
              /\ inputFiles' = [inputFiles EXCEPT ![k].stamp = stamp]
    /\ UNCHANGED <<mapperVars, mappingDoc, ret, returned, watch, goVars, jlsVars, runVars,
                   progressDoc, errorLog, written, faults, marks, trackerRet>>

NextResume == NextFolder \/ Touch

SpecResume == InitFolder /\ [][NextResume]_vars

\* One of the two pipelines is enabled for the file.
Selected(c, file) == ProbeUltrasound(c, file) \/ c.ProcessMetadata

\* The file was last marked success.
MarkedSuccess(file) ==
    /\ file.path \in DOMAIN marks
    /\ marks[file.path].Status = StatusSuccess

\* The step of the file loop skips the file it stands at.
SkipsCurrentFile ==
    /\ stats'.Skipped = stats.Skipped + 1
    /\ stats'.Success = stats.Success
    /\ stats'.Failed = stats.Failed
    /\ written' = written

\* C18 as stated: a file (that a pipeline is enabled for) is skipped if and
\* only if it was last marked success and is unchanged on disk since then;
\* a file whose size or mtime changed, or whose last mark is error, is
\* processed again.
C18_SkippedIffUnchanged ==
    [][(pc = "files" /\ Selected(cfg, CurrentFile))
       => (SkipsCurrentFile <=> ( /\ MarkedSuccess(CurrentFile)
                                  /\ CurrentFile.stamp = marks[CurrentFile.path].stamp ))]_vars

\* C18, amended: a file (that a pipeline is enabled for) is skipped if and
\* only if it was last marked success and its fingerprint - the MD5 prefix
\* of its size and of its mtime in whole seconds - is the one it had then; a
\* file whose fingerprint changed, or whose last mark is error, is processed
\* again.
C18_SkippedIffSameFingerprint ==
    [][(pc = "files" /\ Selected(cfg, CurrentFile))
       => (SkipsCurrentFile <=> ( /\ MarkedSuccess(CurrentFile)
                                  /\ MD5Prefix(HashInput(CurrentFile.stamp))
                                     = MD5Prefix(HashInput(marks[CurrentFile.path].stamp)) ))]_vars

\* The second run over two files that both succeeded in the first: one is
\* unchanged and skipped, the other was resized and is processed again.
C18_Witness ==
    /\ pc = "done"
    /\ runs = 1
    /\ Len(inputFiles) = 2
    /\ \E a, b \in 1..2 :
          /\ inputFiles[a].stamp = StampOriginal
          /\ inputFiles[b].stamp = StampResized
          /\ diskBefore.progressDoc.state = "ok"
          /\ \A k \in 1..2 :
                /\ inputFiles[k].path \in DOMAIN diskBefore.progressDoc.Files
                /\ diskBefore.progressDoc.Files[inputFiles[k].path].Status = StatusSuccess
    /\ stats.Success = 1
    /\ stats.Skipped = 1
    /\ stats.Failed = 0

(***************************************************************************)
(* One Tracker, called method by method, on a folder whose files and       *)
(* progress file can be removed.                                           *)
(***************************************************************************)

\* What the methods of the Tracker leave alone.
trackerFrame ==
    <<mapperVars, mappingDoc, ret, returned, watch, goVars, jlsVars, cfg, pc, patients, patientIdx,
      fileIdx, anonIDs, stats, diskBefore, runs, progressVars, result, errorLog, written,
      faults, marks>>

\* progress.NewTracker on a folder with no progress file.
InitTracker ==
    /\ InitMapper
    /\ NoEncode
    /\ inputFiles \in Folders
    /\ cfg = NoConfig
    /\ pc = "idle"
    /\ patients = <<>>
    /\ patientIdx = 1
    /\ fileIdx = 1
    /\ anonIDs = <<>>
    /\ stats = NoStats
    /\ tracker = NewTracker(NoProgress)
    /\ diskBefore = NoDisk
    /\ progressCb = FALSE
    /\ totalFiles = 0
    /\ fileIndex = 0
    /\ callbacks = <<>>
    /\ result = NoResult
    /\ runs = 0
    /\ progressDoc = NoProgress
    /\ errorLog = NoLog
    /\ written = EmptyMap
    /\ faults = {}
    /\ marks = EmptyMap
    /\ trackerRet = NoTrackerRet

\* tracker.IsProcessed(filePath) for the k-th file.
TrackerIsProcessed(k) ==
    /\ trackerRet' = [op |-> "IsProcessed", path |-> inputFiles[k].path,
                      processed |-> IsProcessed(tracker, inputFiles[k]), count |-> 0]
    /\ UNCHANGED <<inputFiles, tracker, progressDoc, trackerFrame>>

\* tracker.MarkSuccess(filePath, outputPath) for the k-th file.
TrackerMarkSuccess(k) ==
    LET marked == MarkSuccess(tracker, inputFiles[k], OutputPath(EmptyString, inputFiles[k]))
    IN  /\ tracker' = marked
        /\ progressDoc' = SaveProgress(faults, marked.processed)
        /\ trackerRet' = [NoTrackerRet EXCEPT !.op = "MarkSuccess",
                                              !.path = inputFiles[k].path]
        /\ UNCHANGED <<inputFiles, trackerFrame>>

\* tracker.MarkError(filePath, errorMsg) for the k-th file.
TrackerMarkError(k) ==
    LET marked == MarkError(tracker, inputFiles[k])
    IN  /\ tracker' = marked
        /\ progressDoc' = SaveProgress(faults, marked.processed)
        /\ trackerRet' = [NoTrackerRet EXCEPT !.op = "MarkError",
                                              !.path = inputFiles[k].path]
        /\ UNCHANGED <<inputFiles, trackerFrame>>

\* tracker.ClearFailed()
TrackerClearFailed ==
    /\ tracker' = ClearFailed(tracker)
    /\ progressDoc' = IF ClearFailedCount(tracker) > 0
                      THEN SaveProgress(faults, ClearFailed(tracker).processed)
                      ELSE progressDoc
    /\ trackerRet' = [NoTrackerRet EXCEPT !.op = "ClearFailed",
                                          !.count = ClearFailedCount(tracker)]
    /\ UNCHANGED <<inputFiles, trackerFrame>>

\* progress.NewTracker: a new process reads the progress file.
TrackerReload ==
    /\ tracker' = NewTracker(progressDoc)
    /\ trackerRet' = NoTrackerRet
    /\ UNCHANGED <<inputFiles, progressDoc, trackerFrame>>

\* The k-th file is removed from the folder.
RemoveFile(k) ==
    /\ inputFiles[k].exists
    /\ inputFiles' = [inputFiles EXCEPT ![k].exists = FALSE]
    /\ UNCHANGED <<tracker, progressDoc, trackerRet, trackerFrame>>

\* The progress file is removed.
RemoveProgressFile ==
    /\ progressDoc # NoProgress
    /\ progressDoc' = NoProgress
    /\ UNCHANGED <<inputFiles, tracker, trackerRet, trackerFrame>>

NextTracker ==
    \/ \E k \in 1..Len(inputFiles) :
          \/ TrackerIsProcessed(k)
          \/ TrackerMarkSuccess(k)
          \/ TrackerMarkError(k)
          \/ RemoveFile(k)
    \/ TrackerClearFailed
    \/ TrackerReload
    \/ RemoveProgressFile

SpecTracker == InitTracker /\ [][NextTracker]_vars

\* C19 as stated: IsProcessed returns false whenever the file is missing on
\* disk, whatever entries the tracker holds for the path and whenever they
\* were recorded.
C19_MissingFileNotProcessed ==
    [][\A k \in 1..Len(inputFiles) :
          (TrackerIsProcessed(k) /\ ~inputFiles[k].exists) => ~trackerRet'.processed]_vars

\* C20: ClearFailed removes exactly the entries with status error and
\* returns their number; every entry with status success is left as it is;
\* the progress file is written when an entry was removed and left alone
\* when none was.
C20_ClearFailedRemovesErrors ==
    [][TrackerClearFailed =>
        LET before == tracker.processed
            errors == {p \in DOMAIN before : before[p].Status = StatusError}
        IN  /\ DOMAIN tracker'.processed = DOMAIN before \ errors
            /\ \A p \in DOMAIN tracker'.processed :
                  /\ before[p].Status = StatusSuccess
                  /\ tracker'.processed[p] = before[p]
            /\ trackerRet'.count = Cardinality(errors)
            /\ errors # {} => progressDoc' = TrackerSave(tracker'.processed)
            /\ errors = {} => progressDoc' = progressDoc]_vars

\* ClearFailed removed one of two entries and wrote a progress file that had
\* been removed.
C20_Witness ==
    /\ trackerRet.op = "ClearFailed"
    /\ trackerRet.count = 1
    /\ Len(inputFiles) = 2
    /\ Cardinality(DOMAIN tracker.processed) = 1
    /\ \A p \in DOMAIN tracker.processed : tracker.processed[p].Status = StatusSuccess
    /\ progressDoc = TrackerSave(tracker.processed)

(***************************************************************************)
(* JPEG-LS.  The encoder of internal/jpegls on a single-component frame,   *)
(* and on the other side of the stream the decoding procedure of           *)
(* ITU-T T.87 (Annex A with the decoder's steps of Annex F).  The marker   *)
(* segments (SOI, SOF55, SOS, EOI) carry the size and the bit depth; the   *)
(* encoder writes no LSE segment (UsePreset is false), so the decoder      *)
(* works with the default preset parameters of T.87 C.2.4.1.1.             *)
(***************************************************************************)

\* The frames encoded: 8 and 16 bits per sample, up to three samples a line.
BitDepths == {8, 16}
Shapes == {<<1, 1>>, <<2, 1>>, <<3, 1>>, <<2, 2>>}
SampleValues(bpp) == {0, 100, 2^(bpp - 1), 2^bpp - 1}
Images ==
    UNION {{[bpp |-> b, width |-> s[1], height |-> s[2], pixels |-> p] :
                p \in [1..(s[1] * s[2]) -> SampleValues(b)]} :
           b \in BitDepths, s \in Shapes}

min(a, b) == IF a < b THEN a ELSE b
max(a, b) == IF a > b THEN a ELSE b
iabs(x) == IF x < 0 THEN -x ELSE x
clamp(val, minVal, maxVal) == max(minVal, min(val, maxVal))

\* params.go 49-61: the RK column of JTable, by run index 0..31.
JTable ==
    <<0, 0, 0, 0, 1, 1, 1, 1, 2, 2, 2, 2, 3, 3, 3, 3,
      4, 4, 5, 5, 6, 7, 8, 9, 10, 11, 12, 13, 14, 15, 16, 17>>
RK(runIdx) == JTable[runIdx + 1]

\* params.go 130-146
calculateThresholds(maxVal, near) ==
    IF maxVal >= 128
    THEN LET factor == min(maxVal, 4095)
             t1 == clamp(near + 1 + factor \div 256, near + 1, maxVal)
             t2 == clamp(near + 1 + factor \div 64, t1, maxVal)
             t3 == clamp(near + 1 + factor \div 16, t2, maxVal)
         IN  [T1 |-> t1, T2 |-> t2, T3 |-> t3]
    ELSE LET t1 == clamp(near + 1 + max((maxVal + 1) \div 16, 1), near + 1, maxVal)
             t2 == clamp(near + 1 + max((maxVal + 1) \div 8, 1), t1, maxVal)
             t3 == clamp(near + 1 + max((maxVal + 1) \div 4, 1), t2, maxVal)
         IN  [T1 |-> t1, T2 |-> t2, T3 |-> t3]

\* params.go 91-126, for NEAR = 0 (with the constants of 6-46)
NewParams(bpp) ==
    LET maxVal == 2^bpp - 1
        rangeVal == maxVal + 1
        t == calculateThresholds(maxVal, 0)
    IN  [MaxVal |-> maxVal, Near |-> 0, T1 |-> t.T1, T2 |-> t.T2, T3 |-> t.T3,
         Reset |-> 64,
         Qbpp |-> CHOOSE q \in 0..32 : 2^q >= rangeVal /\ \A r \in 0..(q - 1) : 2^r < rangeVal,
         Range |-> rangeVal, Limit |-> 2 * (bpp + max(8, bpp)), BitsPerPixel |-> bpp,
         LimitK |-> 32, MinC |-> -128, MaxC |-> 127]

\* params.go 184-205 (NewContextModel): every context starts like this.
NewContext(params) ==
    [A |-> max((params.Range + 32) \div 64, 2), B |-> 0, C |-> 0, N |-> 1]

\* params.go 18: the number of regular contexts.
ContextCount == 365

\* params.go 282-287: the record GetContext hands out for an index; an index
\* outside the array falls back to record 0.
ContextSlot(idx) == IF idx < 0 \/ idx >= ContextCount THEN 0 ELSE idx

\* ContextModel.GetContext on the contexts used so far.
GetContext(contexts, params, idx) ==
    IF ContextSlot(idx) \in DOMAIN contexts THEN contexts[ContextSlot(idx)]
    ELSE NewContext(params)

\* params.go 227-255
QuantizeGradient(g, t1, t2, t3) ==
    IF g < -t3 THEN -4
    ELSE IF g < -t2 THEN -3
    ELSE IF g < -t1 THEN -2
    ELSE IF g < 0 THEN -1
    ELSE IF g = 0 THEN 0
    ELSE IF g <= t1 THEN 1
    ELSE IF g <= t2 THEN 2
    ELSE IF g <= t3 THEN 3
    ELSE 4

\* params.go 263-279
GetContextIndex(q1, q2, q3) ==
    LET flip == q1 < 0 \/ (q1 = 0 /\ q2 < 0) \/ (q1 = 0 /\ q2 = 0 /\ q3 < 0)
        s == IF flip THEN -1 ELSE 1
    IN  [idx |-> (s * q1) * 81 + (s * q2 + 4) * 9 + (s * q3 + 4), sign |-> s]

\* params.go 395-400
ComputeContextFromGradients(params, g1, g2, g3) ==
    GetContextIndex(QuantizeGradient(g1, params.T1, params.T2, params.T3),
                    QuantizeGradient(g2, params.T1, params.T2, params.T3),
                    QuantizeGradient(g3, params.T1, params.T2, params.T3))

\* params.go 299-317: the least k with N * 2^k >= A, at most maxK.
ComputeK(ctx, maxK) ==
    IF ctx.N = 0 THEN 0
    ELSE min(maxK, CHOOSE k \in 0..64 :
                       /\ ctx.N * 2^k >= ctx.A
                       /\ \A j \in 0..(k - 1) : ctx.N * 2^j < ctx.A)

\* params.go 320-363
UpdateStatistics(ctx, errval, params) ==
    LET b1 == ctx.B + errval
        a1 == ctx.A + iabs(errval)
        atReset == ctx.N = params.Reset
        a2 == IF atReset THEN (a1 + 1) \div 2 ELSE a1
        b2 == IF ~atReset THEN b1
              ELSE IF b1 >= 0 THEN (b1 + 1) \div 2 ELSE -((1 - b1) \div 2)
        n2 == (IF atReset THEN (ctx.N + 1) \div 2 ELSE ctx.N) + 1
    IN  IF b2 <= -n2
        THEN [A |-> a2, N |-> n2,
              C |-> IF ctx.C > params.MinC THEN ctx.C - 1 ELSE ctx.C,
              B |-> IF b2 + n2 <= -n2 THEN -n2 + 1 ELSE b2 + n2]
        ELSE IF b2 > 0
        THEN [A |-> a2, N |-> n2,
              C |-> IF ctx.C < params.MaxC THEN ctx.C + 1 ELSE ctx.C,
              B |-> IF b2 - n2 > 0 THEN 0 ELSE b2 - n2]
        ELSE [A |-> a2, N |-> n2, C |-> ctx.C, B |-> b2]

\* predictor.go 17-25
Predict(a, b, c) ==
    IF c >= max(a, b) THEN min(a, b)
    ELSE IF c <= min(a, b) THEN max(a, b)
    ELSE a + b - c

\* golomb.go 148-164
CorrectPrediction(px, correction, sign, maxVal) ==
    clamp(IF sign > 0 THEN px + correction ELSE px - correction, 0, maxVal)

\* ReduceError with the reduction left out.
ReduceError_None(errval, rangeVal) == errval

\* golomb.go 137-145
ReduceError(errval, rangeVal) ==
    LET e == IF errval < 0 THEN errval + rangeVal ELSE errval
    IN  IF e >= (rangeVal + 1) \div 2 THEN e - rangeVal ELSE e

\* golomb.go 15-29
MapErrorValue(errval) == IF errval >= 0 THEN 2 * errval ELSE 2 * (-errval) - 1

\* golomb.go 70-88, for NEAR = 0
ReconstructSample(predicted, errval, sign, maxVal) ==
    clamp(predicted + errval * sign, 0, maxVal)

\* predictor.go 200-210 (BitWriter.WriteBits): the low n bits of val, most significant first.
WriteBits(val, n) == [i \in 1..n |-> (val \div 2^(n - i)) % 2]

\* predictor.go 213-218 (BitWriter.WriteUnary): n zeros and a one.
WriteUnary(n) == [i \in 1..(n + 1) |-> IF i = n + 1 THEN 1 ELSE 0]

\* golomb.go 97-113
EncodeGolomb(mapped, k, limit, qbpp) ==
    LET q == mapped \div 2^k
    IN  IF q < limit - qbpp - 1
        THEN WriteUnary(q) \o WriteBits(mapped % 2^k, k)
        ELSE WriteUnary(limit - qbpp - 1) \o WriteBits(mapped - 1, qbpp)

\* predictor.go 95-100: NeighborGetter.Get
Get(pixels, width, height, defaultVal, x, y) ==
    IF x < 0 \/ y < 0 \/ x >= width \/ y >= height THEN defaultVal
    ELSE pixels[y * width + x + 1]

\* predictor.go 111-144
GetNeighbors(pixels, width, height, defaultVal, x, y) ==
    IF y = 0
    THEN [a |-> IF x = 0 THEN defaultVal
                ELSE Get(pixels, width, height, defaultVal, x - 1, y),
          b |-> defaultVal, c |-> defaultVal, d |-> defaultVal]
    ELSE LET b == Get(pixels, width, height, defaultVal, x, y - 1)
         IN  [a |-> IF x = 0 THEN b ELSE Get(pixels, width, height, defaultVal, x - 1, y),
              b |-> b,
              c |-> IF x = 0 THEN b
                    ELSE Get(pixels, width, height, defaultVal, x - 1, y - 1),
              d |-> IF x = width - 1 THEN b
                    ELSE Get(pixels, width, height, defaultVal, x + 1, y - 1)]

\* predictor.go 60-65
ComputeGradients(n) == [g1 |-> n.d - n.b, g2 |-> n.b - n.c, g3 |-> n.c - n.a]

\* runmode.go 262-264
DetectRunMode(g) == g.g1 = 0 /\ g.g2 = 0 /\ g.g3 = 0

\* params.go 376-380
IncrementRunIndex(runIndex) == IF runIndex < Len(JTable) - 1 THEN runIndex + 1 ELSE runIndex

\* params.go 383-387
DecrementRunIndex(runIndex) == IF runIndex > 0 THEN runIndex - 1 ELSE runIndex

\* encodeRunSegments with the run index kept when a run ends short of the
\* end of the line.
RECURSIVE encodeRunSegments_KeepIndex(_, _, _)
encodeRunSegments_KeepIndex(runLength, lineRemaining, runIndex) ==
    IF runLength <= 0 THEN [bits |-> <<>>, runIndex |-> runIndex]
    ELSE LET rk == RK(runIndex)
             segmentSize == 2^rk
         IN  IF runLength >= segmentSize
             THEN LET next == IncrementRunIndex(runIndex)
                  IN  IF runLength - segmentSize = 0
                      THEN IF lineRemaining - segmentSize = 0
                           THEN [bits |-> <<1>>, runIndex |-> next]
                           ELSE [bits |-> <<1, 0>> \o WriteBits(0, RK(next)),
                                 runIndex |-> next]
                      ELSE LET rest == encodeRunSegments_KeepIndex(runLength - segmentSize,
                                           lineRemaining - segmentSize, next)
                           IN  [bits |-> <<1>> \o rest.bits, runIndex |-> rest.runIndex]
             ELSE IF runLength = lineRemaining
             THEN [bits |-> <<>>, runIndex |-> runIndex]
             ELSE [bits |-> <<0>> \o WriteBits(runLength, rk), runIndex |-> runIndex]

\* runmode.go 81-139: the bits of the run's segments, and the run index
\* the loop leaves.
RECURSIVE encodeRunSegments(_, _, _)
encodeRunSegments(runLength, lineRemaining, runIndex) ==
    IF runLength <= 0 THEN [bits |-> <<>>, runIndex |-> runIndex]
    ELSE LET rk == RK(runIndex)
             segmentSize == 2^rk
         IN  IF runLength >= segmentSize
             THEN LET next == IncrementRunIndex(runIndex)
                  IN  IF runLength - segmentSize = 0
                      THEN IF lineRemaining - segmentSize = 0
                           THEN [bits |-> <<1>>, runIndex |-> next]
                           ELSE [bits |-> <<1, 0>> \o WriteBits(0, RK(next)),
                                 runIndex |-> 0]
                      ELSE LET rest == encodeRunSegments(runLength - segmentSize,
                                                         lineRemaining - segmentSize, next)
                           IN  [bits |-> <<1>> \o rest.bits, runIndex |-> rest.runIndex]
             ELSE IF runLength = lineRemaining
             THEN [bits |-> <<>>, runIndex |-> runIndex]
             ELSE [bits |-> <<0>> \o WriteBits(runLength, rk), runIndex |-> 0]

\* runmode.go 237-250
mapRunInterruptionError(errval, ra, rb) ==
    IF ra >= rb
    THEN IF errval >= 0 THEN 2 * errval ELSE 2 * (-errval) - 1
    ELSE IF errval > 0 THEN 2 * errval - 1 ELSE 2 * (-errval)

\* runmode.go 151-223: the bits of the sample that ends a run, the run
\* contexts and the run index afterwards, with the context read, the k
\* computed from it, the k and the limit of the code word and the run
\* index the call was given.
encodeRunInterruptionSample(runContexts, params, sample, ra, rb, runIdx) ==
    LET ctxIdx == IF iabs(ra - rb) > params.Near THEN 1 ELSE 0
        sign == IF ra < rb THEN -1 ELSE 1
        predicted == IF ra < rb THEN ra ELSE rb
        ctx == runContexts[ctxIdx + 1]
        errval == ReduceError((sample - predicted) * sign, params.Range)
        mapped == mapRunInterruptionError(errval, ra, rb)
        k0 == ComputeK(ctx, params.LimitK)
        tempA == ctx.A + ctx.N \div 2
        k == IF runIdx > 0 THEN max(0, k0 - 1) ELSE k0
        limit == max(2, params.Limit - RK(runIdx) - 1)
        b1 == IF errval < 0 THEN ctx.B + 1 ELSE ctx.B
        a1 == ctx.A + iabs(errval) - (tempA - ctx.A) \div ctx.N
        atReset == ctx.N = params.Reset
        updated == [A |-> IF atReset THEN a1 \div 2 ELSE a1, B |-> b1, C |-> ctx.C,
                    N |-> (IF atReset THEN ctx.N \div 2 ELSE ctx.N) + 1]
    IN  [bits |-> EncodeGolomb(mapped, k, limit, params.Qbpp),
         runContexts |-> [runContexts EXCEPT ![ctxIdx + 1] = updated],
         runIndex |-> DecrementRunIndex(runIdx),
         ctx |-> ctx, k0 |-> k0, k |-> k, limit |-> limit, runIdx |-> runIdx]

\* runmode.go 28-63: the samples of the line from x on that equal refVal.
RunLength(pixels, width, x, y, refVal) ==
    LET remaining == width - x
        startIdx == y * width + x
        matches(n) == \A i \in 0..(n - 1) : pixels[startIdx + i + 1] = refVal
    IN  CHOOSE n \in 0..remaining :
            (n = remaining \/ pixels[startIdx + n + 1] # refVal) /\ matches(n)

\* EncodeRun with the interruption sample coded but not counted as consumed.
EncodeRun_SampleNotCounted(e, params, width, x, y, refVal) ==
    LET runLength == RunLength(e.recon, width, x, y, refVal)
        remaining == width - x
        seg == IF runLength > 0 THEN encodeRunSegments(runLength, remaining, e.runIndex)
               ELSE [bits |-> <<>>, runIndex |-> e.runIndex]
    IN  IF runLength < remaining
        THEN LET rb == IF y = 0 THEN refVal
                       ELSE e.recon[(y - 1) * width + x + runLength + 1]
                 ri == encodeRunInterruptionSample(e.runContexts, params,
                           e.recon[y * width + x + runLength + 1], refVal, rb, seg.runIndex)
             IN  [e EXCEPT !.pos = e.pos + runLength,
                           !.bits = e.bits \o seg.bits \o ri.bits,
                           !.runContexts = ri.runContexts,
                           !.runIndex = ri.runIndex]
        ELSE [e EXCEPT !.pos = e.pos + runLength,
                       !.bits = e.bits \o seg.bits,
                       !.runIndex = seg.runIndex]

\* runmode.go 28-63 (EncodeRun) with 143-148 (getRunInterruptionContext)
EncodeRun(e, params, width, x, y, refVal) ==
    LET runLength == RunLength(e.recon, width, x, y, refVal)
        remaining == width - x
        seg == IF runLength > 0 THEN encodeRunSegments(runLength, remaining, e.runIndex)
               ELSE [bits |-> <<>>, runIndex |-> e.runIndex]
    IN  IF runLength < remaining
        THEN LET rb == IF y = 0 THEN refVal
                       ELSE e.recon[(y - 1) * width + x + runLength + 1]
                 ri == encodeRunInterruptionSample(e.runContexts, params,
                           e.recon[y * width + x + runLength + 1], refVal, rb, seg.runIndex)
             IN  [e EXCEPT !.pos = e.pos + runLength + 1,
                           !.bits = e.bits \o seg.bits \o ri.bits,
                           !.runContexts = ri.runContexts,
                           !.runIndex = ri.runIndex]
        ELSE [e EXCEPT !.pos = e.pos + runLength,
                       !.bits = e.bits \o seg.bits,
                       !.runIndex = seg.runIndex]

\* encoder.go 313-346
encodeRegularSample(e, params, width, height, x, y, n, g) ==
    LET actual == Get(e.recon, width, height, (params.MaxVal + 1) \div 2, x, y)
        q == ComputeContextFromGradients(params, g.g1, g.g2, g.g3)
        ctx == GetContext(e.contexts, params, q.idx)
        px == CorrectPrediction(Predict(n.a, n.b, n.c), ctx.C, q.sign, params.MaxVal)
        errval == ReduceError((actual - px) * q.sign, params.Range)
        mapped == MapErrorValue(errval)
        k == ComputeK(ctx, params.LimitK)
        reconstructed == ReconstructSample(px, errval, q.sign, params.MaxVal)
    IN  [e EXCEPT !.pos = e.pos + 1,
                  !.bits = e.bits \o EncodeGolomb(mapped, k, params.Limit, params.Qbpp),
                  !.contexts = Put(e.contexts, ContextSlot(q.idx),
                                   UpdateStatistics(ctx, errval, params)),
                  !.recon = [e.recon EXCEPT ![y * width + x + 1] = reconstructed]]

\* FlushBytes with every bit written as a byte of its own.
FlushBytes_BytePerBit(bits) == bits

\* predictor.go 239-291 (BitWriter.flushByte, Flush): the last byte is padded with one
\* bits, and a zero byte follows every 0xFF byte.
FlushBytes(bits) ==
    LET n == (Len(bits) + 7) \div 8
        bit(i) == IF i <= Len(bits) THEN bits[i] ELSE 1
        byte(j) == bit(8 * j - 7) * 128 + bit(8 * j - 6) * 64 + bit(8 * j - 5) * 32
                   + bit(8 * j - 4) * 16 + bit(8 * j - 3) * 8 + bit(8 * j - 2) * 4
                   + bit(8 * j - 1) * 2 + bit(8 * j)
        at(j) == j + Cardinality({i \in 1..(j - 1) : byte(i) = 255})
        total == n + Cardinality({i \in 1..n : byte(i) = 255})
    IN  [m \in 1..total |->
            IF \E j \in 1..n : at(j) = m THEN byte(CHOOSE j \in 1..n : at(j) = m) ELSE 0]

(***************************************************************************)
(* The decoder of ITU-T T.87.  Where the standard leaves a stream          *)
(* undescribed (the data end inside a code word, a run count that passes   *)
(* the end of the line) the decoder stops with an error.                   *)
(***************************************************************************)

\* T.87 Table A.2 (J), by RUNindex 0..31.
T87_J ==
    <<0, 0, 0, 0, 1, 1, 1, 1, 2, 2, 2, 2, 3, 3, 3, 3,
      4, 4, 5, 5, 6, 6, 7, 7, 8, 9, 10, 11, 12, 13, 14, 15>>

\* T.87 C.2.4.1.1.1: the default thresholds for NEAR = 0 and MAXVAL >= 128,
\* with A.2.1 (RANGE, qbpp, bpp, LIMIT) and the default RESET, MIN_C, MAX_C.
T87_Params(P) ==
    LET MAXVAL == 2^P - 1
        FACTOR == (min(MAXVAL, 4095) + 128) \div 256
        T1 == clamp(FACTOR * (3 - 2) + 2, 1, MAXVAL)
        T2 == clamp(FACTOR * (7 - 3) + 3, T1, MAXVAL)
        T3 == clamp(FACTOR * (21 - 4) + 4, T2, MAXVAL)
        RANGE == MAXVAL + 1
        bpp == max(2, P)
    IN  [MAXVAL |-> MAXVAL, T1 |-> T1, T2 |-> T2, T3 |-> T3, RANGE |-> RANGE,
         qbpp |-> P, LIMIT |-> 2 * (bpp + max(8, bpp)), RESET |-> 64,
         MIN_C |-> -128, MAX_C |-> 127]

\* T.87 A.8: A = max(2, floor((RANGE + 32) / 64)), N = 1, B = C = 0; the
\* run interruption contexts 365 and 366 have A, N and Nn = 0.
T87_Context(p) == [A |-> max(2, (p.RANGE + 32) \div 64), B |-> 0, C |-> 0, N |-> 1]
T87_RunContext(p) == [A |-> max(2, (p.RANGE + 32) \div 64), N |-> 1, Nn |-> 0]

\* T.87 9.1: in the entropy-coded segment the byte after a 0xFF byte holds
\* a zero bit and seven bits of data.
T87_Bits(bytes) ==
    LET n == Len(bytes)
        width(m) == IF m > 1 /\ bytes[m - 1] = 255 THEN 7 ELSE 8
        start(m) == 8 * (m - 1) - Cardinality({j \in 2..(m - 1) : bytes[j - 1] = 255})
        total == IF n = 0 THEN 0 ELSE start(n) + width(n)
    IN  [i \in 1..total |->
            LET m == CHOOSE m \in 1..n : start(m) < i /\ i <= start(m) + width(m)
            IN  (bytes[m] \div 2^(start(m) + width(m) - i)) % 2]

\* The value of the n bits after the first pos bits.
RECURSIVE T87_ReadValue(_, _, _)
T87_ReadValue(bits, pos, n) ==
    IF n = 0 THEN 0 ELSE 2 * T87_ReadValue(bits, pos, n - 1) + bits[pos + n]

T87_Failed == [ok |-> FALSE, val |-> 0, pos |-> 0]

\* T.87 A.5.3 read backwards: the unary part, then k bits, or qbpp bits
\* after LIMIT - qbpp - 1 zeros.
T87_DecodeGolomb(bits, pos, k, limit, qbpp) ==
    LET ones == {i \in (pos + 1)..Len(bits) : bits[i] = 1}
    IN  IF ones = {} THEN T87_Failed
        ELSE LET first == CHOOSE i \in ones : \A j \in ones : i <= j
                 zeros == first - pos - 1
                 n == IF zeros < limit - qbpp - 1 THEN k ELSE qbpp
             IN  IF first + n > Len(bits) THEN T87_Failed
                 ELSE [ok |-> TRUE,
                       val |-> IF zeros < limit - qbpp - 1
                               THEN zeros * 2^k + T87_ReadValue(bits, first, k)
                               ELSE T87_ReadValue(bits, first, qbpp) + 1,
                       pos |-> first + n]

\* T.87 A.5.1 / A.7.2: the least k with N * 2^k >= a.
T87_K(N, a) == CHOOSE k \in 0..64 : N * 2^k >= a /\ \A j \in 0..(k - 1) : N * 2^j < a

\* T.87 A.2.1 and Figure 3: the causal template of the sample at (x, y) of
\* the decoded samples.  On the first line Rb, Rc and Rd are 0; at the
\* start of a line Ra is Rb and Rc is the Ra of the line before; at the end
\* of a line Rd is Rb.
T87_Template(out, width, x, y) ==
    LET at(i, j) == out[j * width + i + 1]
        Rb == IF y = 0 THEN 0 ELSE at(x, y - 1)
    IN  [Ra |-> IF x = 0 THEN Rb ELSE at(x - 1, y),
         Rb |-> Rb,
         Rc |-> IF x = 0 THEN (IF y < 2 THEN 0 ELSE at(0, y - 2))
                ELSE IF y = 0 THEN 0 ELSE at(x - 1, y - 1),
         Rd |-> IF y = 0 THEN 0 ELSE IF x = width - 1 THEN Rb ELSE at(x + 1, y - 1)]

\* T.87 A.3.1, A.3.2: run mode is selected when the three gradients are 0.
T87_RunMode(t) == t.Rd - t.Rb = 0 /\ t.Rb - t.Rc = 0 /\ t.Rc - t.Ra = 0

\* T.87 A.3.3 (Code segment A.4)
T87_Quantize(D, p) ==
    IF D <= -p.T3 THEN -4
    ELSE IF D <= -p.T2 THEN -3
    ELSE IF D <= -p.T1 THEN -2
    ELSE IF D < 0 THEN -1
    ELSE IF D <= 0 THEN 0
    ELSE IF D < p.T1 THEN 1
    ELSE IF D < p.T2 THEN 2
    ELSE IF D < p.T3 THEN 3
    ELSE 4

\* T.87 A.3.4: the context (Q1, Q2, Q3) with its first non-zero element
\* made positive, and SIGN.
T87_ContextOf(t, p) ==
    LET Q1 == T87_Quantize(t.Rd - t.Rb, p)
        Q2 == T87_Quantize(t.Rb - t.Rc, p)
        Q3 == T87_Quantize(t.Rc - t.Ra, p)
        flip == Q1 < 0 \/ (Q1 = 0 /\ Q2 < 0) \/ (Q1 = 0 /\ Q2 = 0 /\ Q3 < 0)
    IN  IF flip THEN [Q |-> <<-Q1, -Q2, -Q3>>, SIGN |-> -1]
        ELSE [Q |-> <<Q1, Q2, Q3>>, SIGN |-> 1]

\* T.87 A.6 (Code segments A.12, A.13): the update of A, B, C, N.
T87_Update(c, Errval, p) ==
    LET b1 == c.B + Errval
        a1 == c.A + iabs(Errval)
        atReset == c.N = p.RESET
        a2 == IF atReset THEN a1 \div 2 ELSE a1
        b2 == IF ~atReset THEN b1 ELSE IF b1 >= 0 THEN b1 \div 2 ELSE -((1 - b1) \div 2)
        n2 == (IF atReset THEN c.N \div 2 ELSE c.N) + 1
    IN  IF b2 <= -n2
        THEN [A |-> a2, N |-> n2, C |-> IF c.C > p.MIN_C THEN c.C - 1 ELSE c.C,
              B |-> IF b2 + n2 <= -n2 THEN -n2 + 1 ELSE b2 + n2]
        ELSE IF b2 > 0
        THEN [A |-> a2, N |-> n2, C |-> IF c.C < p.MAX_C THEN c.C + 1 ELSE c.C,
              B |-> IF b2 - n2 > 0 THEN 0 ELSE b2 - n2]
        ELSE [A |-> a2, N |-> n2, C |-> c.C, B |-> b2]

\* T.87 A.4.5 / F.1: the reconstructed value modulo RANGE.
T87_Rx(v, p) == IF v < 0 THEN v + p.RANGE ELSE IF v > p.MAXVAL THEN v - p.RANGE ELSE v

\* T.87 F.1 steps 4-13: one sample in regular mode.
T87_DecodeRegular(d, p, t) ==
    LET q == T87_ContextOf(t, p)
        c == IF q.Q \in DOMAIN d.contexts THEN d.contexts[q.Q] ELSE T87_Context(p)
        Px == clamp(Predict(t.Ra, t.Rb, t.Rc) + q.SIGN * c.C, 0, p.MAXVAL)
        k == T87_K(c.N, c.A)
        g == T87_DecodeGolomb(d.bits, d.pos, k, p.LIMIT, p.qbpp)
        M == g.val
        Errval == IF k = 0 /\ 2 * c.B <= -c.N
                  THEN (IF M % 2 = 1 THEN (M - 1) \div 2 ELSE -(M \div 2) - 1)
                  ELSE (IF M % 2 = 0 THEN M \div 2 ELSE -((M + 1) \div 2))
    IN  IF ~g.ok THEN [d EXCEPT !.status = "error"]
        ELSE [d EXCEPT !.pos = g.pos,
                       !.out = Append(d.out, T87_Rx(Px + q.SIGN * Errval, p)),
                       !.contexts = Put(d.contexts, q.Q, T87_Update(c, Errval, p))]

\* T.87 A.7.1 read backwards (F.1 step 14): the length of the run, at most
\* the rest of the line, whether it ended the line, and RUNindex.
RECURSIVE T87_DecodeRunLength(_, _, _, _)
T87_DecodeRunLength(bits, pos, RUNindex, remaining) ==
    LET none == [ok |-> FALSE, count |-> 0, pos |-> 0, RUNindex |-> 0, eol |-> FALSE]
        J == T87_J[RUNindex + 1]
    IN  IF pos >= Len(bits) THEN none
        ELSE IF bits[pos + 1] = 1
        THEN LET count == min(2^J, remaining)
                 next == IF count = 2^J /\ RUNindex < 31 THEN RUNindex + 1 ELSE RUNindex
             IN  IF count = remaining
                 THEN [ok |-> TRUE, count |-> count, pos |-> pos + 1, RUNindex |-> next,
                       eol |-> TRUE]
                 ELSE LET rest == T87_DecodeRunLength(bits, pos + 1, next, remaining - count)
                      IN  [rest EXCEPT !.count = IF rest.ok THEN count + rest.count ELSE 0]
        ELSE IF pos + 1 + J > Len(bits) \/ T87_ReadValue(bits, pos + 1, J) >= remaining
        THEN none
        ELSE [ok |-> TRUE, count |-> T87_ReadValue(bits, pos + 1, J), pos |-> pos + 1 + J,
              RUNindex |-> RUNindex, eol |-> FALSE]

\* T.87 A.7.2 read backwards: the sample that ends a run, at (x, y).
T87_DecodeRunInterruption(d, p, width, x, y, Ra, pos, RUNindex) ==
    LET Rb == IF y = 0 THEN 0 ELSE d.out[(y - 1) * width + x + 1]
        RItype == IF Ra = Rb THEN 1 ELSE 0
        c == d.runContexts[RItype + 1]
        TEMP == IF RItype = 0 THEN c.A ELSE c.A + c.N \div 2
        k == T87_K(c.N, TEMP)
        g == T87_DecodeGolomb(d.bits, pos, k, p.LIMIT - T87_J[RUNindex + 1] - 1, p.qbpp)
        EMErrval == g.val
        t == EMErrval + RItype
        negative == ((k # 0) \/ (2 * c.Nn >= c.N)) <=> (t % 2 = 1)
        Errval == IF negative THEN -((t + 1) \div 2) ELSE (t + 1) \div 2
        atReset == c.N = p.RESET
        a1 == c.A + (EMErrval + 1 - RItype) \div 2
        nn1 == IF Errval < 0 THEN c.Nn + 1 ELSE c.Nn
        updated == [A |-> IF atReset THEN a1 \div 2 ELSE a1,
                    N |-> (IF atReset THEN c.N \div 2 ELSE c.N) + 1,
                    Nn |-> IF atReset THEN nn1 \div 2 ELSE nn1]
        Rx == IF RItype = 1 THEN T87_Rx(Ra + Errval, p)
              ELSE IF Ra > Rb THEN T87_Rx(Rb - Errval, p)
              ELSE T87_Rx(Rb + Errval, p)
    IN  [ok |-> g.ok, pos |-> g.pos, Rx |-> Rx,
         runContexts |-> [d.runContexts EXCEPT ![RItype + 1] = updated],
         RUNindex |-> IF RUNindex > 0 THEN RUNindex - 1 ELSE RUNindex]

\* T.87 F.1 steps 14-16: a run of Ra and, unless the run ended the line,
\* the sample that interrupted it.
T87_DecodeRun(d, p, width, x, y, Ra) ==
    LET r == T87_DecodeRunLength(d.bits, d.pos, d.RUNindex, width - x)
        filled == d.out \o [i \in 1..r.count |-> Ra]
    IN  IF ~r.ok THEN [d EXCEPT !.status = "error"]
        ELSE IF r.eol
        THEN [d EXCEPT !.pos = r.pos, !.out = filled, !.RUNindex = r.RUNindex]
        ELSE LET ri == T87_DecodeRunInterruption([d EXCEPT !.out = filled], p, width,
                                                 x + r.count, y, Ra, r.pos, r.RUNindex)
             IN  IF ~ri.ok THEN [d EXCEPT !.status = "error"]
                 ELSE [d EXCEPT !.pos = ri.pos, !.out = Append(filled, ri.Rx),
                                !.runContexts = ri.runContexts,
                                !.RUNindex = ri.RUNindex]

(***************************************************************************)
(* One frame: Encoder.Encode sample by sample, then the decoder on the     *)
(* bytes it wrote.                                                         *)
(***************************************************************************)

Samples == image.width * image.height

\* encoder.go 20-34 (NewEncoder) and 101-111: the state encodeComponent
\* starts with.
NewEncoder(img) ==
    [pos |-> 0, recon |-> img.pixels, contexts |-> EmptyMap,
     runContexts |-> <<NewContext(NewParams(img.bpp)), NewContext(NewParams(img.bpp))>>,
     runIndex |-> 0, bits |-> <<>>, flushed |-> FALSE]

\* AtSample with the run index left as the line before left it.
AtSample_NoReset ==
    LET x == enc.pos % image.width
        y == enc.pos \div image.width
        n == GetNeighbors(enc.recon, image.width, image.height,
                          (NewParams(image.bpp).MaxVal + 1) \div 2, x, y)
    IN  [x |-> x, y |-> y, e |-> enc, n |-> n, g |-> ComputeGradients(n)]

\* encoder.go 113-116: the position of the loop, with the run index reset
\* at the start of each line.
AtSample ==
    LET x == enc.pos % image.width
        y == enc.pos \div image.width
        e == IF x = 0 THEN [enc EXCEPT !.runIndex = 0] ELSE enc
        n == GetNeighbors(e.recon, image.width, image.height,
                          (NewParams(image.bpp).MaxVal + 1) \div 2, x, y)
    IN  [x |-> x, y |-> y, e |-> e, n |-> n, g |-> ComputeGradients(n)]

\* A frame is handed to an encoder made for it.
InitEncode ==
    /\ InitMapper
    /\ inputFiles = <<>>
    /\ NoRun
    /\ runs = 0
    /\ progressDoc = NoProgress
    /\ errorLog = NoLog
    /\ written = EmptyMap
    /\ faults = {}
    /\ marks = EmptyMap
    /\ trackerRet = NoTrackerRet
    /\ image \in Images
    /\ enc = NewEncoder(image)
    /\ stream = <<>>
    /\ dec = NoDecoder
    /\ ilv = NoInterleaved
    /\ temp = NoTemp
    /\ outputs = <<>>
    /\ bw = NoBitWriter
    /\ pure = NoPure

encodeFrame ==
    <<mapperVars, mappingDoc, ret, returned, watch, folderVars, goVars, image, bw, ilv, temp, pure>>

\* encoder.go 127-130: the loop of encodeComponent at a sample in run mode.
EncodeRunStep ==
    /\ image # NoImage
    /\ ~enc.flushed
    /\ enc.pos < Samples
    /\ DetectRunMode(AtSample.g)
    /\ enc' = EncodeRun(AtSample.e, NewParams(image.bpp), image.width, AtSample.x,
                        AtSample.y, AtSample.n.a)
    /\ UNCHANGED <<encodeFrame, stream, dec, outputs>>

\* encoder.go 131-135: the loop at a sample in regular mode.
EncodeRegularStep ==
    /\ image # NoImage
    /\ ~enc.flushed
    /\ enc.pos < Samples
    /\ ~DetectRunMode(AtSample.g)
    /\ enc' = encodeRegularSample(AtSample.e, NewParams(image.bpp), image.width,
                                  image.height, AtSample.x, AtSample.y, AtSample.n,
                                  AtSample.g)
    /\ UNCHANGED <<encodeFrame, stream, dec, outputs>>

(***************************************************************************)
(* The marker segments around the scan (src/unnamed/part_007) and the      *)
(* bytes Encode returns (encoder.go 40-98).                                *)
(***************************************************************************)

\* binary.Write(buf, binary.BigEndian, uint16(n))
BigEndian16(n) == <<(n % 65536) \div 256, n % 256>>

\* 0xFF 0xD8
WriteSOI == <<255, 216>>

\* 0xFF 0xD9
WriteEOI == <<255, 217>>

\* 0xFF 0xF7, the length 8 + 3*Nf, P, Y, X, Nf and (Ci, 0x11, 0) for each
\* component.
WriteSOF55(info) ==
    LET nf == IF info.ComponentCount = 0 THEN 1 ELSE info.ComponentCount
    IN  <<255, 247>> \o BigEndian16(8 + 3 * nf) \o <<info.BitsPerSample % 256>>
            \o BigEndian16(info.Height) \o BigEndian16(info.Width) \o <<nf % 256>>
            \o [j \in 1..(3 * nf) |-> CASE j % 3 = 1 -> ((j + 2) \div 3) % 256
                                         [] j % 3 = 2 -> 17
                                         [] OTHER -> 0]

\* 0xFF 0xDA, the length 6 + 2*Ns, Ns, (Csj, 0) for each component, NEAR,
\* ILV, Pt.
WriteSOSComponents(info, componentIDs) ==
    LET ids == IF componentIDs = <<>> THEN <<1>> ELSE componentIDs
        ns == Len(ids)
    IN  <<255, 218>> \o BigEndian16(6 + 2 * ns) \o <<ns % 256>>
            \o [j \in 1..(2 * ns) |-> IF j % 2 = 1 THEN ids[(j + 1) \div 2] % 256 ELSE 0]
            \o <<info.Near % 256, info.ILV % 256, info.Pt % 256>>

WriteJPEGLSTrailer == WriteEOI

\* Encode with the trailer left out.
Encode_NoTrailer(img, scan) ==
    LET frameInfo == [Width |-> img.width, Height |-> img.height, BitsPerSample |-> img.bpp,
                      ComponentCount |-> 1]
        scanInfo == [Near |-> NewParams(img.bpp).Near, ILV |-> 0, Pt |-> 0]
    IN  WriteSOI \o WriteSOF55(frameInfo) \o WriteSOSComponents(scanInfo, <<1>>) \o scan

\* encoder.go 49-98: the buffer Encode returns for a grayscale frame
\* (e.samples = 1) whose scan was written as the bytes in scan.
Encode(img, scan) ==
    LET frameInfo == [Width |-> img.width, Height |-> img.height, BitsPerSample |-> img.bpp,
                      ComponentCount |-> 1]
        scanInfo == [Near |-> NewParams(img.bpp).Near, ILV |-> 0, Pt |-> 0]
    IN  WriteSOI \o WriteSOF55(frameInfo) \o WriteSOSComponents(scanInfo, <<1>>) \o scan
            \o WriteJPEGLSTrailer

\* encoder.go 139-140 and 93-97: bw.Flush() after the last line, the trailer,
\* and the return of the buffer.
EncodeFlush ==
    /\ image # NoImage
    /\ ~enc.flushed
    /\ enc.pos >= Samples
    /\ enc' = [enc EXCEPT !.flushed = TRUE]
    /\ stream' = FlushBytes(enc.bits)
    /\ outputs' = Append(outputs, Encode(image, FlushBytes(enc.bits)))
    /\ UNCHANGED <<encodeFrame, dec>>

\* The decoder has read the markers and stands at the start of the scan.
DecodeStart ==
    /\ enc.flushed
    /\ dec.status = "idle"
    /\ dec' = [status |-> "decoding", bits |-> T87_Bits(stream), pos |-> 0, out |-> <<>>,
               contexts |-> EmptyMap,
               runContexts |-> <<T87_RunContext(T87_Params(image.bpp)),
                                 T87_RunContext(T87_Params(image.bpp))>>,
               RUNindex |-> 0]
    /\ UNCHANGED <<encodeFrame, enc, stream, outputs>>

AtDecoded ==
    LET x == Len(dec.out) % image.width
        y == Len(dec.out) \div image.width
    IN  [x |-> x, y |-> y, t |-> T87_Template(dec.out, image.width, x, y)]

\* The decoder at a sample in run mode.
DecodeRunStep ==
    /\ dec.status = "decoding"
    /\ Len(dec.out) < Samples
    /\ T87_RunMode(AtDecoded.t)
    /\ dec' = T87_DecodeRun(dec, T87_Params(image.bpp), image.width, AtDecoded.x,
                            AtDecoded.y, AtDecoded.t.Ra)
    /\ UNCHANGED <<encodeFrame, enc, stream, outputs>>

\* The decoder at a sample in regular mode.
DecodeRegularStep ==
    /\ dec.status = "decoding"
    /\ Len(dec.out) < Samples
    /\ ~T87_RunMode(AtDecoded.t)
    /\ dec' = T87_DecodeRegular(dec, T87_Params(image.bpp), AtDecoded.t)
    /\ UNCHANGED <<encodeFrame, enc, stream, outputs>>

\* The decoder has all the samples of the frame.
DecodeEnd ==
    /\ dec.status = "decoding"
    /\ Len(dec.out) = Samples
    /\ dec' = [dec EXCEPT !.status = "done"]
    /\ UNCHANGED <<encodeFrame, enc, stream, outputs>>

NextEncode ==
    \/ EncodeRunStep
    \/ EncodeRegularStep
    \/ EncodeFlush
    \/ DecodeStart
    \/ DecodeRunStep
    \/ DecodeRegularStep
    \/ DecodeEnd

SpecEncode == InitEncode /\ [][NextEncode]_vars

\* C13: the encoder is lossless: a conformant T.87 decoder that has read the
\* encoder's output has decoded pixel values equal to the input exactly, for
\* every frame of an in-scope bit depth.
C13_LosslessRoundTrip ==
    dec.status \in {"done", "error"} => dec.status = "done" /\ dec.out = image.pixels

(***************************************************************************)
(* Functions of the packages applied to arguments: the arguments are drawn *)
(* when the state is made, the action applies the function to them.        *)
(***************************************************************************)

\* What applying a function leaves alone.
pureFrame ==
    <<mapperVars, mappingDoc, ret, returned, watch, folderVars, goVars, image, enc, stream,
      dec, outputs, bw, ilv, temp>>

\* Nothing else of the program is under way.
Quiet ==
    /\ InitMapper
    /\ inputFiles = <<>>
    /\ NoRun
    /\ runs = 0
    /\ progressDoc = NoProgress
    /\ errorLog = NoLog
    /\ written = EmptyMap
    /\ faults = {}
    /\ marks = EmptyMap
    /\ trackerRet = NoTrackerRet
    /\ image = NoImage
    /\ enc = NoEncoder
    /\ stream = <<>>
    /\ dec = NoDecoder
    /\ ilv = NoInterleaved
    /\ temp = NoTemp
    /\ outputs = <<>>
    /\ bw = NoBitWriter

\* The function f is about to be applied to one of the inputs.
Applying(f, inputs) ==
    pure \in {[f |-> f, in |-> i, out |-> <<>>, done |-> FALSE] : i \in inputs}

\* f has been applied and returned out.
Applied(f, out) ==
    /\ pure.f = f
    /\ ~pure.done
    /\ pure' = [pure EXCEPT !.out = out, !.done = TRUE]
    /\ UNCHANGED pureFrame

(***************************************************************************)
(* internal/anonymizer: pixel redaction of a raw byte payload.             *)
(***************************************************************************)

\* The longest pixel payload, in bytes.
MaxPayload == 8

\* A payload with no zero byte in it: byte i holds i.
Payload(n) == [i \in 1..n |-> i]

\* The datasets redacted: Columns, SamplesPerPixel and BitsAllocated as
\* getIntValue reads them (0 when the element is missing), and PixelData.
RedactInputs ==
    {[Columns |-> c, SamplesPerPixel |-> s, BitsAllocated |-> b, PixelData |-> Payload(n),
      redactRows |-> r] :
        c \in {1, 2}, s \in {0, 1, 3}, b \in {0, 1, 8, 12, 16}, n \in 0..MaxPayload,
        r \in {0, 1, 2}}

\* ultrasound.go 65-115, the []byte case: the payload after redaction.
redactPixels(ds, redactRows) ==
    LET cols == ds.Columns
        samples == IF ds.SamplesPerPixel = 0 THEN 1 ELSE ds.SamplesPerPixel
        bitsAlloc == IF ds.BitsAllocated = 0 THEN 8 ELSE ds.BitsAllocated
        bytesPerSample == bitsAlloc \div 8
        bytesPerRow == cols * samples * bytesPerSample
        redactBytes == min(redactRows * bytesPerRow, Len(ds.PixelData))
    IN  [i \in 1..Len(ds.PixelData) |-> IF i <= redactBytes THEN 0 ELSE ds.PixelData[i]]

InitRedact == Quiet /\ Applying("redactPixels", RedactInputs)

RedactPixels == Applied("redactPixels", redactPixels(pure.in, pure.in.redactRows))

NextRedact == RedactPixels

SpecRedact == InitRedact /\ [][NextRedact]_vars

\* ceil(n / 8)
CeilDiv8(n) == (n + 7) \div 8

\* C21: for a raw-byte pixel payload, redaction zeroes exactly the first
\* min(redact_rows * Columns * SamplesPerPixel * ceil(BitsAllocated/8), length)
\* bytes and leaves every later byte unchanged, for every value of
\* BitsAllocated (the elements being present in the dataset).
C21_RedactsWholeRows ==
    (pure.f = "redactPixels" /\ pure.done
        /\ pure.in.SamplesPerPixel > 0 /\ pure.in.BitsAllocated > 0) =>
        LET ds == pure.in
            n == min(ds.redactRows * ds.Columns * ds.SamplesPerPixel
                     * CeilDiv8(ds.BitsAllocated), Len(ds.PixelData))
        IN  /\ Len(pure.out) = Len(ds.PixelData)
            /\ \A i \in 1..Len(pure.out) :
                   pure.out[i] = IF i <= n THEN 0 ELSE ds.PixelData[i]

(***************************************************************************)
(* IsValidIdentity on placeholder names (hash.go 53-89).                   *)
(***************************************************************************)

\* A name spelled with the letters at the positions in caps in upper case and
\* all others in lower case.
Spelled(name, caps) ==
    [i \in 1..Len(name) |-> IF i \in caps THEN UpperByte(name[i]) ELSE LowerByte(name[i])]

\* Every spelling of every placeholder name in every letter case, and the
\* names of the library, each with a real and a placeholder date of birth.
IdentityInputs ==
    {[name |-> n, dob |-> d] :
        n \in UNION {{Spelled(p, caps) : caps \in SUBSET (1..Len(p))} : p \in PlaceholderNames}
              \cup Names,
        d \in DOBs}

InitIdentity == Quiet /\ Applying("IsValidIdentity", IdentityInputs)

CheckIdentity == Applied("IsValidIdentity", <<IsValidIdentity(pure.in.name, pure.in.dob)>>)

NextIdentity == CheckIdentity

SpecIdentity == InitIdentity /\ [][NextIdentity]_vars

\* C22: IsValidIdentity returns false for every patient name that is one of
\* the placeholder values (empty, UNKNOWN, NONAME, NO NAME, ANONYMOUS, TEST,
\* PATIENT) in any letter case.
C22_PlaceholderNameInvalid ==
    (pure.f = "IsValidIdentity" /\ pure.done /\ ToLower(pure.in.name) \in PlaceholderNames)
        => pure.out = <<FALSE>>

(***************************************************************************)
(* Encoding the same frame again (encoder.go 20-34, 40-141).               *)
(***************************************************************************)

\* Encode is called at most this many times on one frame.
MaxEncodes == 2

\* encoder.go 101-111: what a further Encode call on the same Encoder starts
\* with: a new buffer, bit writer and working copy; e.cm and e.runEnc are
\* those NewEncoder made.
Reencode(e, img) == [e EXCEPT !.pos = 0, !.recon = img.pixels, !.bits = <<>>, !.flushed = FALSE]

\* Encode is called again on the same Encoder value with the same pixels.
EncodeAgain ==
    /\ enc.flushed
    /\ Len(outputs) < MaxEncodes
    /\ enc' = Reencode(enc, image)
    /\ UNCHANGED <<encodeFrame, stream, dec, outputs>>

\* NewEncoder makes a second Encoder value and Encode is called on it with the
\* same pixels.
EncodeOnNew ==
    /\ enc.flushed
    /\ Len(outputs) < MaxEncodes
    /\ enc' = NewEncoder(image)
    /\ UNCHANGED <<encodeFrame, stream, dec, outputs>>

NextReencode ==
    \/ EncodeRunStep
    \/ EncodeRegularStep
    \/ EncodeFlush
    \/ EncodeAgain
    \/ EncodeOnNew

SpecReencode == InitEncode /\ [][NextReencode]_vars

\* C23: every Encode call starts from freshly initialised context records
\* and RUNindex 0, so encoding the same pixels twice, on one Encoder value or
\* on two, yields byte-identical output.
C23_SameOutputEveryCall ==
    \A i, j \in DOMAIN outputs : outputs[i] = outputs[j]

(***************************************************************************)
(* The marker structure of the encoder's output.                           *)
(***************************************************************************)

MarkerSOI == 216
MarkerEOI == 217
MarkerSOF55 == 247
MarkerSOS == 218

\* The markers of a byte stream in the order a JPEG reader meets them from
\* position i on: a marker is 0xFF followed by a byte other than 0x00 and
\* 0xFF; SOI and EOI stand alone, every other marker starts a segment whose
\* length field says where it ends; the bytes after an SOS segment are
\* entropy-coded data up to the next marker.  A byte that belongs to nothing
\* is reported as -1.
RECURSIVE MarkersFrom(_, _, _)
MarkersFrom(bytes, i, inScan) ==
    IF i > Len(bytes) THEN <<>>
    ELSE IF bytes[i] = 255 /\ i < Len(bytes) /\ bytes[i + 1] \notin {0, 255}
         THEN IF bytes[i + 1] \in {MarkerSOI, MarkerEOI}
              THEN <<bytes[i + 1]>> \o MarkersFrom(bytes, i + 2, FALSE)
              ELSE IF i + 3 > Len(bytes) THEN <<bytes[i + 1], -1>>
                   ELSE <<bytes[i + 1]>>
                            \o MarkersFrom(bytes, i + 2 + bytes[i + 2] * 256 + bytes[i + 3],
                                           bytes[i + 1] = MarkerSOS)
         ELSE IF inScan THEN MarkersFrom(bytes, i + 1, TRUE)
              ELSE <<-1>>

Markers(bytes) == MarkersFrom(bytes, 1, FALSE)

\* C24: the encoder emits its segments in the order SOI, SOF55, SOS,
\* entropy-coded data, EOI: every output begins with 0xFF 0xD8, ends with
\* 0xFF 0xD9, and its marker segments contain exactly one SOF55 and at least
\* one SOS.
C24_MarkerOrder ==
    \A n \in DOMAIN outputs :
        LET out == outputs[n]
            m == Markers(out)
        IN  /\ Len(out) >= 4
            /\ SubSeq(out, 1, 2) = <<255, MarkerSOI>>
            /\ SubSeq(out, Len(out) - 1, Len(out)) = <<255, MarkerEOI>>
            /\ Cardinality({k \in DOMAIN m : m[k] = MarkerSOF55}) = 1
            /\ Cardinality({k \in DOMAIN m : m[k] = MarkerSOS}) >= 1
            /\ \E f, s \in DOMAIN m :
                   /\ m[f] = MarkerSOF55
                   /\ m[s] = MarkerSOS
                   /\ 1 < f /\ f < s /\ s < Len(m)
                   /\ m[1] = MarkerSOI
                   /\ m[Len(m)] = MarkerEOI
            /\ \A k \in DOMAIN m : m[k] # -1

\* An encoder has returned a stream whose entropy-coded data holds a stuffed
\* 0xFF byte.
C24_Witness ==
    /\ outputs # <<>>
    /\ enc.flushed
    /\ \E k \in DOMAIN stream : stream[k] = 255
    /\ Len(image.pixels) > 1

(***************************************************************************)
(* The bit writer (predictor.go 167-324) as the object its callers see.    *)
(* bw.buf holds every byte appended so far, bw.bits the bits its callers   *)
(* handed in.                                                              *)
(***************************************************************************)

\* The calls before Flush hand in at most this many bits in all.
MaxStreamBits == 10

\* flushByte with the stuffing left out.
flushByte_NoStuffing(w) ==
    IF w.bitCount < 8 THEN w
    ELSE LET shift == w.bitCount - 8
             b == (w.bitBuf \div 2^shift) % 256
         IN  [w EXCEPT !.bitBuf = w.bitBuf % 2^shift, !.bitCount = shift,
                       !.buf = Append(w.buf, b)]

\* predictor.go 239-262
flushByte(w) ==
    IF w.bitCount < 8 THEN w
    ELSE LET shift == w.bitCount - 8
             b == (w.bitBuf \div 2^shift) % 256
         IN  [w EXCEPT !.bitBuf = w.bitBuf % 2^shift, !.bitCount = shift,
                       !.buf = IF b = 255 THEN w.buf \o <<255, 0>> ELSE Append(w.buf, b)]

\* predictor.go 190-196.  bitBuf is a uint32; it holds fewer than 8 bits
\* whenever WriteBit is entered, so the shift never drops a bit.
WriteBit(w, bit) ==
    LET v == [w EXCEPT !.bitBuf = (w.bitBuf * 2) + (bit % 2),
                       !.bitCount = w.bitCount + 1,
                       !.bits = Append(w.bits, bit % 2)]
    IN  IF v.bitCount >= 8 THEN flushByte(v) ELSE v

\* predictor.go 200-210: the low n bits of val, most significant first.
RECURSIVE WriteBitsTo(_, _, _)
WriteBitsTo(w, val, n) ==
    IF n <= 0 THEN w
    ELSE WriteBitsTo(WriteBit(w, (val \div 2^(n - 1)) % 2), val, n - 1)

\* predictor.go 213-218: n zeros, then a one.
WriteUnaryTo(w, n) == WriteBit(WriteBitsTo(w, 0, n), 1)

\* predictor.go 274-292: pad with ones to the byte boundary and hand the
\* buffer to the underlying writer.
Flush(w) ==
    LET pad == IF w.bitCount > 0 /\ w.bitCount < 8 THEN 8 - w.bitCount ELSE 0
        v == WriteBitsTo(w, 2^pad - 1, pad)
    IN  [flushByte(v) EXCEPT !.flushed = TRUE, !.bits = w.bits]

bitWriterFrame ==
    <<mapperVars, mappingDoc, ret, returned, watch, folderVars, goVars, image, enc, stream,
      dec, outputs, ilv, temp, pure>>

InitBitWriter ==
    /\ InitMapper
    /\ inputFiles = <<>>
    /\ NoRun
    /\ runs = 0
    /\ progressDoc = NoProgress
    /\ errorLog = NoLog
    /\ written = EmptyMap
    /\ faults = {}
    /\ marks = EmptyMap
    /\ trackerRet = NoTrackerRet
    /\ NoEncode

CallWriteBit ==
    /\ ~bw.flushed
    /\ Len(bw.bits) + 1 <= MaxStreamBits
    /\ \E bit \in {0, 1} : bw' = WriteBit(bw, bit)
    /\ UNCHANGED bitWriterFrame

CallWriteBits ==
    /\ ~bw.flushed
    /\ \E val \in {0, 1, 170, 255, 511}, n \in 0..9 :
           /\ Len(bw.bits) + n <= MaxStreamBits
           /\ bw' = WriteBitsTo(bw, val, n)
    /\ UNCHANGED bitWriterFrame

CallWriteUnary ==
    /\ ~bw.flushed
    /\ \E n \in 0..4 :
           /\ Len(bw.bits) + n + 1 <= MaxStreamBits
           /\ bw' = WriteUnaryTo(bw, n)
    /\ UNCHANGED bitWriterFrame

CallFlush ==
    /\ ~bw.flushed
    /\ bw' = Flush(bw)
    /\ UNCHANGED bitWriterFrame

NextBitWriter ==
    \/ CallWriteBit
    \/ CallWriteBits
    \/ CallWriteUnary
    \/ CallFlush

SpecBitWriter == InitBitWriter /\ [][NextBitWriter]_vars

\* C25: for any sequence of WriteBit, WriteBits and WriteUnary calls followed
\* by Flush, every 0xFF byte the bit writer has emitted is immediately
\* followed by a 0x00 stuffing byte, including a 0xFF produced by the final
\* padding.
C25_StuffedAfterFF ==
    \A i \in DOMAIN bw.buf :
        bw.buf[i] = 255 => i < Len(bw.buf) /\ bw.buf[i + 1] = 0

\* Flush has padded a partial byte to 0xFF after an earlier 0xFF byte.
C25_Witness ==
    /\ bw.flushed
    /\ Len(bw.bits) > 8
    /\ Len(bw.bits) % 8 # 0
    /\ bw.buf = <<255, 0, 255, 0>>

(***************************************************************************)
(* Constant-valued frames, from one sample up to frames of 512 samples.   *)
(***************************************************************************)

UniformShapes == {<<1, 1>>, <<2, 2>>, <<256, 1>>, <<1, 256>>, <<16, 16>>, <<32, 16>>}

UniformValues(bpp) == {0, 2^(bpp - 1), 2^(bpp - 1) + 2^(bpp - 2), 2^bpp - 1}

UniformImages ==
    UNION {{[bpp |-> b, width |-> s[1], height |-> s[2],
             pixels |-> [i \in 1..(s[1] * s[2]) |-> v]] : v \in UniformValues(b)} :
           b \in BitDepths, s \in UniformShapes}

\* The size in bytes of the frame as raw samples.
RawSize(img) == img.width * img.height * ((img.bpp + 7) \div 8)

InitUniform ==
    /\ InitMapper
    /\ inputFiles = <<>>
    /\ NoRun
    /\ runs = 0
    /\ progressDoc = NoProgress
    /\ errorLog = NoLog
    /\ written = EmptyMap
    /\ faults = {}
    /\ marks = EmptyMap
    /\ trackerRet = NoTrackerRet
    /\ image \in UniformImages
    /\ enc = NewEncoder(image)
    /\ stream = <<>>
    /\ dec = NoDecoder
    /\ ilv = NoInterleaved
    /\ temp = NoTemp
    /\ outputs = <<>>
    /\ bw = NoBitWriter
    /\ pure = NoPure

NextUniform ==
    \/ EncodeRunStep
    \/ EncodeRegularStep
    \/ EncodeFlush

SpecUniform == InitUniform /\ [][NextUniform]_vars

MaxData == 4

SeqsUpTo(S, n) == UNION {[1..k -> S] : k \in 0..n}

\* The calls: byte slices for EncodeFromBytes, pixel slices for Encode, each
\* with the dimensions of a grayscale frame.
EncodeCalls ==
    {[f |-> "EncodeFromBytes", in |-> [data |-> d, width |-> w, height |-> h, samples |-> 1,
                                      bpp |-> b], out |-> <<>>, done |-> FALSE] :
        d \in SeqsUpTo({0, 3}, MaxData), w \in {1, 2}, h \in {1, 2}, b \in {8, 12, 16}}
    \cup
    {[f |-> "Encode", in |-> [data |-> d, width |-> w, height |-> h, samples |-> 1,
                             bpp |-> b], out |-> <<>>, done |-> FALSE] :
        d \in SeqsUpTo({0, 255}, MaxData), w \in {1, 2}, h \in {1, 2}, b \in {8, 16}}

\* expectedLen with one byte too many per sample.
expectedLen_Wide(width, height, samples, bpp) == width * height * samples * ((bpp + 15) \div 8)

\* encoder.go 413-414: bytesPerSample := (bpp + 7) / 8 and expectedLen
expectedLen(width, height, samples, bpp) == width * height * samples * ((bpp + 7) \div 8)

\* encoder.go 420-436: the samples of the byte slice, two bytes little-endian
\* when a sample takes more than one byte.
PixelsFromBytes(data, pixelCount, bpp) ==
    IF (bpp + 7) \div 8 = 1
    THEN [i \in 1..pixelCount |-> data[i]]
    ELSE [i \in 1..pixelCount |-> data[2 * i - 1] + 256 * data[2 * i]]

InitCalls ==
    /\ InitMapper
    /\ inputFiles = <<>>
    /\ NoRun
    /\ runs = 0
    /\ progressDoc = NoProgress
    /\ errorLog = NoLog
    /\ written = EmptyMap
    /\ faults = {}
    /\ marks = EmptyMap
    /\ trackerRet = NoTrackerRet
    /\ image = NoImage
    /\ enc = NoEncoder
    /\ stream = <<>>
    /\ dec = NoDecoder
    /\ ilv = NoInterleaved
    /\ temp = NoTemp
    /\ outputs = <<>>
    /\ bw = NoBitWriter
    /\ pure \in EncodeCalls

callFrame ==
    <<mapperVars, mappingDoc, ret, returned, watch, folderVars, goVars, stream, dec, outputs, bw, ilv, temp>>

\* encoder.go 412-439: EncodeFromBytes up to the start of the scan.
CallEncodeFromBytes ==
    /\ pure.f = "EncodeFromBytes"
    /\ ~pure.done
    /\ LET c == pure.in
       IN  IF Len(c.data) # expectedLen(c.width, c.height, c.samples, c.bpp)
           THEN /\ pure' = [pure EXCEPT !.out = <<"error">>, !.done = TRUE]
                /\ UNCHANGED <<image, enc>>
           ELSE /\ pure' = [pure EXCEPT !.out = <<"encoding">>, !.done = TRUE]
                /\ image' = [bpp |-> c.bpp, width |-> c.width, height |-> c.height,
                             pixels |-> PixelsFromBytes(c.data, c.width * c.height * c.samples,
                                                        c.bpp)]
                /\ enc' = NewEncoder(image')
    /\ UNCHANGED callFrame

\* encoder.go 20-34, 40-44: NewEncoder and Encode up to the start of the scan.
CallEncode ==
    /\ pure.f = "Encode"
    /\ ~pure.done
    /\ LET c == pure.in
       IN  IF Len(c.data) # c.width * c.height * c.samples
           THEN /\ pure' = [pure EXCEPT !.out = <<"error">>, !.done = TRUE]
                /\ UNCHANGED <<image, enc>>
           ELSE /\ pure' = [pure EXCEPT !.out = <<"encoding">>, !.done = TRUE]
                /\ image' = [bpp |-> c.bpp, width |-> c.width, height |-> c.height,
                             pixels |-> c.data]
                /\ enc' = NewEncoder(image')
    /\ UNCHANGED callFrame

NextCalls ==
    \/ CallEncodeFromBytes
    \/ CallEncode
    \/ EncodeRunStep
    \/ EncodeRegularStep
    \/ EncodeFlush

SpecCalls == InitCalls /\ [][NextCalls]_vars

\* C27: EncodeFromBytes rejects every input whose length differs from
\* W*H*S*ceil(bpp/8): it returns an error and no output bytes; Encode
\* likewise rejects every pixel slice whose length differs from W*H*S.
C27_WrongLengthRejected ==
    LET c == pure.in
        wanted == IF pure.f = "EncodeFromBytes"
                  THEN c.width * c.height * c.samples * ((c.bpp + 7) \div 8)
                  ELSE c.width * c.height * c.samples
    IN  (pure.f \in {"EncodeFromBytes", "Encode"} /\ Len(c.data) # wanted)
            => /\ outputs = <<>>
               /\ enc = NoEncoder
               /\ pure.done => pure.out = <<"error">>

\* EncodeFromBytes has turned down a 12-bit frame handed in with one byte
\* per sample, and Encode a slice one pixel short.
C27_Witness ==
    /\ pure.done
    /\ pure.out = <<"error">>
    /\ \/ /\ pure.f = "EncodeFromBytes"
          /\ pure.in.bpp = 12
          /\ Len(pure.in.data) = pure.in.width * pure.in.height
          /\ Len(pure.in.data) > 0
       \/ /\ pure.f = "Encode"
          /\ Len(pure.in.data) + 1 = pure.in.width * pure.in.height

\* C28: in lossless mode, after each sample is coded in regular mode the
\* value written back to the reconstruction plane equals the original
\* sample, so the neighbours a, b, c, d of every later sample are the
\* original (and the decoder's) values.
C28_ReconstructionIsOriginal ==
    image # NoImage => \A i \in 1..Len(enc.recon) : enc.recon[i] = image.pixels[i]

(***************************************************************************)
(* The bits of a run as the run-length code describes them.                *)
(***************************************************************************)

\* The complete segments a run of runLength samples fills from run index
\* runIndex on: their number, the samples left over, and the run index the
\* left-over is coded with.
RECURSIVE CompleteSegments(_, _)
CompleteSegments(runLength, runIndex) ==
    IF runLength >= 2^RK(runIndex) /\ runLength > 0
    THEN LET rest == CompleteSegments(runLength - 2^RK(runIndex), IncrementRunIndex(runIndex))
         IN  [rest EXCEPT !.count = rest.count + 1]
    ELSE [count |-> 0, remainder |-> runLength, runIndex |-> runIndex]

Ones(n) == [i \in 1..n |-> 1]

\* C29: whenever run mode is entered and the run stops before the end of the
\* line, whatever the run length, the bits emitted for the run end with a
\* single 0 bit followed by rk bits holding the remainder (rk zero bits on a
\* segment boundary) and RUNindex is 0 when the interruption sample is
\* coded; a run that reaches the end of the line emits no terminating
\* segment.
C29_RunTermination ==
    [][(image # NoImage /\ ~enc.flushed /\ enc.pos < Samples /\ DetectRunMode(AtSample.g)
            /\ enc'.pos > enc.pos)
        => LET e == AtSample.e
               x == AtSample.x
               y == AtSample.y
               refVal == AtSample.n.a
               params == NewParams(image.bpp)
               remaining == image.width - x
               runLength == RunLength(e.recon, image.width, x, y, refVal)
               c == CompleteSegments(runLength, e.runIndex)
           IN  IF runLength < remaining
               THEN LET rb == IF y = 0 THEN refVal
                              ELSE e.recon[(y - 1) * image.width + x + runLength + 1]
                        ri == encodeRunInterruptionSample(
                                  e.runContexts, params,
                                  e.recon[y * image.width + x + runLength + 1], refVal, rb, 0)
                    IN  enc'.bits = enc.bits \o Ones(c.count) \o <<0>>
                                        \o WriteBits(c.remainder, RK(c.runIndex)) \o ri.bits
               ELSE enc'.bits = enc.bits \o Ones(c.count)]_vars

(***************************************************************************)
(* GetContextIndex on every triple of quantized gradients (params.go       *)
(* 263-287).                                                               *)
(***************************************************************************)

QuantizedTriples ==
    {[q1 |-> a, q2 |-> b, q3 |-> c] : a \in -4..4, b \in -4..4, c \in -4..4}

InitContextIndex == Quiet /\ Applying("GetContextIndex", QuantizedTriples)

\* GetContextIndex, and the record GetContext hands out for its index.
CallGetContextIndex ==
    Applied("GetContextIndex",
            LET r == GetContextIndex(pure.in.q1, pure.in.q2, pure.in.q3)
            IN  [idx |-> r.idx, sign |-> r.sign, slot |-> ContextSlot(r.idx)])

NextContextIndex == CallGetContextIndex

SpecContextIndex == InitContextIndex /\ [][NextContextIndex]_vars

\* C30: for every quantized gradient triple (q1, q2, q3) with each component
\* in [-4, 4], the context index Q computed after sign canonicalization lies
\* in [0, 364], so each canonical triple selects its own one of the 365
\* regular context records.
C30_ContextIndexInRange ==
    (pure.f = "GetContextIndex" /\ pure.done)
        => /\ pure.out.idx \in 0..364
           /\ pure.out.slot = pure.out.idx

(***************************************************************************)
(* ReduceError on every prediction error (golomb.go 137-145).              *)
(***************************************************************************)

\* The sample precisions the reduction is applied at.
ErrorDepths == {2, 4, 8, 12}

\* Every error e with |e| <= MAXVAL, with RANGE = MAXVAL + 1.
ErrorInputs ==
    UNION {{[errval |-> e, rangeVal |-> 2^b] : e \in (1 - 2^b)..(2^b - 1)} : b \in ErrorDepths}

InitReduce == Quiet /\ Applying("ReduceError", ErrorInputs)

CallReduceError == Applied("ReduceError", <<ReduceError(pure.in.errval, pure.in.rangeVal)>>)

NextReduce == CallReduceError

SpecReduce == InitReduce /\ [][NextReduce]_vars

InterleavedShapes == {<<1, 1>>, <<2, 1>>, <<1, 2>>}
InterleavedCounts == {2, 3}
InterleavedValues == {0, 128, 255}

\* The frames handed to an encoder of several components: 8 bits per
\* sample, the samples of a pixel side by side.
InterleavedImages ==
    UNION {{[bpp |-> 8, width |-> s[1], height |-> s[2], pixels |-> p] :
                p \in [1..(s[1] * s[2] * c) -> InterleavedValues]} :
           s \in InterleavedShapes, c \in InterleavedCounts}

\* encoder.go 147-163: the planes, neighbour getters and context models made
\* before the first line.
NewInterleaved(img, samples) ==
    [samples |-> samples, pos |-> 0,
     recon |-> [c \in 1..samples |->
                   [i \in 1..(img.width * img.height) |-> img.pixels[(i - 1) * samples + c]]],
     contexts |-> [c \in 1..samples |-> EmptyMap],
     runIndex |-> [c \in 1..samples |-> 0],
     bits |-> <<>>, mode |-> "", zero |-> FALSE, flushed |-> FALSE]

InitInterleaved ==
    /\ InitMapper
    /\ inputFiles = <<>>
    /\ NoRun
    /\ runs = 0
    /\ progressDoc = NoProgress
    /\ errorLog = NoLog
    /\ written = EmptyMap
    /\ faults = {}
    /\ marks = EmptyMap
    /\ trackerRet = NoTrackerRet
    /\ image \in InterleavedImages
    /\ enc = NewEncoder(image)
    /\ stream = <<>>
    /\ dec = NoDecoder
    /\ outputs = <<>>
    /\ bw = NoBitWriter
    /\ ilv = NewInterleaved(image, Len(image.pixels) \div (image.width * image.height))
    /\ temp = NoTemp
    /\ pure = NoPure

interleavedFrame ==
    <<mapperVars, mappingDoc, ret, returned, watch, folderVars, goVars, image, enc, dec, bw, temp, pure>>

\* encoder.go 165-181: one turn of the innermost loop, the sample of
\* component comp at (x, y).  The run index of the component is reset at
\* x = 0, the gradients are computed, and the sample is coded by
\* encodeRegularSampleWithContext whatever the gradients are.
encodeSampleInterleaved(v, img) ==
    LET params == NewParams(img.bpp)
        comp == (v.pos % v.samples) + 1
        pixel == v.pos \div v.samples
        x == pixel % img.width
        y == pixel \div img.width
        n == GetNeighbors(v.recon[comp], img.width, img.height,
                          (params.MaxVal + 1) \div 2, x, y)
        g == ComputeGradients(n)
        e == [NoEncoder EXCEPT !.pos = pixel, !.recon = v.recon[comp],
                               !.contexts = v.contexts[comp], !.bits = v.bits]
        r == encodeRegularSample(e, params, img.width, img.height, x, y, n, g)
    IN  [v EXCEPT !.pos = v.pos + 1,
                  !.recon[comp] = r.recon,
                  !.contexts[comp] = r.contexts,
                  !.runIndex[comp] = IF x = 0 THEN 0 ELSE v.runIndex[comp],
                  !.bits = r.bits,
                  !.mode = "regular",
                  !.zero = DetectRunMode(g)]

EncodeInterleavedStep ==
    /\ ilv.samples > 1
    /\ ~ilv.flushed
    /\ ilv.pos < Len(image.pixels)
    /\ ilv' = encodeSampleInterleaved(ilv, image)
    /\ UNCHANGED <<interleavedFrame, stream, outputs>>

\* encoder.go 49-98: the buffer Encode returns for a frame of several
\* components whose scan was written as the bytes in scan.
EncodeInterleaved(img, samples, scan) ==
    LET frameInfo == [Width |-> img.width, Height |-> img.height, BitsPerSample |-> img.bpp,
                      ComponentCount |-> samples]
        scanInfo == [Near |-> NewParams(img.bpp).Near, ILV |-> 2, Pt |-> 0]
    IN  WriteSOI \o WriteSOF55(frameInfo)
            \o WriteSOSComponents(scanInfo, [i \in 1..samples |-> i]) \o scan
            \o WriteJPEGLSTrailer

\* encoder.go 184 and 93-97: bw.Flush() after the last line, the trailer,
\* and the return of the buffer.
InterleavedFlush ==
    /\ ilv.samples > 1
    /\ ~ilv.flushed
    /\ ilv.pos >= Len(image.pixels)
    /\ ilv' = [ilv EXCEPT !.flushed = TRUE]
    /\ stream' = FlushBytes(ilv.bits)
    /\ outputs' = Append(outputs, EncodeInterleaved(image, ilv.samples, FlushBytes(ilv.bits)))
    /\ UNCHANGED interleavedFrame

NextInterleaved ==
    \/ EncodeInterleavedStep
    \/ InterleavedFlush

SpecInterleaved == InitInterleaved /\ [][NextInterleaved]_vars

\* C32: run mode is entered whenever g1 = g2 = g3 = 0 at the sample being
\* coded, in single-component scans and in sample-interleaved scans of
\* several components alike: a sample whose three gradients were zero was
\* coded in run mode.
C32_RunModeOnZeroGradients == ilv.zero => ilv.mode = "run"

(***************************************************************************)
(* The sample that ends a run (runmode.go 42-58 and 151-223).              *)
(***************************************************************************)

\* encoder.go 124-128 with runmode.go 30-40: the loop stands at a sample in
\* run mode whose run ends before the end of the line.
RunInterrupted ==
    /\ image # NoImage
    /\ ~enc.flushed
    /\ enc.pos < Samples
    /\ DetectRunMode(AtSample.g)
    /\ RunLength(AtSample.e.recon, image.width, AtSample.x, AtSample.y, AtSample.n.a)
           < image.width - AtSample.x

\* runmode.go 42-58: the call of encodeRunInterruptionSample EncodeRun makes
\* at the sample the loop stands at.
RunInterruption ==
    LET s == AtSample
        e == s.e
        width == image.width
        runLength == RunLength(e.recon, width, s.x, s.y, s.n.a)
        seg == IF runLength > 0
               THEN encodeRunSegments(runLength, width - s.x, e.runIndex)
               ELSE [bits |-> <<>>, runIndex |-> e.runIndex]
        rb == IF s.y = 0 THEN s.n.a ELSE e.recon[(s.y - 1) * width + s.x + runLength + 1]
    IN  encodeRunInterruptionSample(e.runContexts, NewParams(image.bpp),
                                    e.recon[s.y * width + s.x + runLength + 1], s.n.a, rb,
                                    seg.runIndex)

\* The least k with (N << k) >= A + N/2.
KFromTemporary(ctx) ==
    CHOOSE k \in 0..64 :
        /\ ctx.N * 2^k >= ctx.A + ctx.N \div 2
        /\ \A j \in 0..(k - 1) : ctx.N * 2^j < ctx.A + ctx.N \div 2

\* C33: for a run-interruption sample the Golomb parameter k is computed
\* from the temporary accumulator A + N/2 of the selected run context, as
\* the least k with (N << k) >= A + N/2, before the decrement that depends
\* on RUNindex.
C33_KFromTemporaryAccumulator ==
    [][(RunInterrupted /\ EncodeRunStep) =>
           RunInterruption.k0 = KFromTemporary(RunInterruption.ctx)]_vars

(***************************************************************************)
(* The run index over the lines of a frame (encoder.go 112-115,            *)
(* params.go 376-392).  The index goes up by one with every full segment   *)
(* of a run, so only a run of 131164 samples takes it to 31, and only one  *)
(* of 262236 samples asks IncrementRunIndex to go past it.                 *)
(***************************************************************************)

LongLine == 262236

\* Frames of one line holding one long run of the default value.
LongImages == {[bpp |-> 8, width |-> LongLine, height |-> 1, pixels |-> [i \in 1..LongLine |-> 128]]}

InitLines ==
    /\ InitMapper
    /\ inputFiles = <<>>
    /\ NoRun
    /\ runs = 0
    /\ progressDoc = NoProgress
    /\ errorLog = NoLog
    /\ written = EmptyMap
    /\ faults = {}
    /\ marks = EmptyMap
    /\ trackerRet = NoTrackerRet
    /\ image \in Images \cup LongImages
    /\ enc = NewEncoder(image)
    /\ stream = <<>>
    /\ dec = NoDecoder
    /\ ilv = NoInterleaved
    /\ temp = NoTemp
    /\ outputs = <<>>
    /\ bw = NoBitWriter
    /\ pure = NoPure

NextLines ==
    \/ EncodeRunStep
    \/ EncodeRegularStep
    \/ EncodeFlush

SpecLines == InitLines /\ [][NextLines]_vars

\* C34: throughout any encode RUNindex stays within [0, 31], and it is 0 at
\* the start of every image line, before any sample of that line is coded.
C34_RunIndexRange ==
    image # NoImage =>
        /\ enc.runIndex \in 0..31
        /\ (~enc.flushed /\ enc.pos < Samples) =>
               /\ AtSample.e.runIndex \in 0..31
               /\ AtSample.x = 0 => AtSample.e.runIndex = 0

\* A second line is about to be coded after a run took the first line to
\* its end and the run index above 0.
C34_Witness ==
    /\ image # NoImage
    /\ ~enc.flushed
    /\ enc.pos < Samples
    /\ enc.pos > 0
    /\ AtSample.x = 0
    /\ enc.runIndex > 0
    /\ AtSample.e.runIndex = 0

\* C35: whenever a run-interruption sample is coded RUNindex is 0, so the
\* decrement of k for RUNindex > 0 is never taken and the Golomb limit of
\* the interruption sample is always LIMIT - 1.
C35_InterruptionAtIndexZero ==
    [][(RunInterrupted /\ EncodeRunStep) =>
           /\ RunInterruption.runIdx = 0
           /\ RunInterruption.k = RunInterruption.k0
           /\ RunInterruption.limit = NewParams(image.bpp).Limit - 1]_vars

\* The third sample of a line has ended a run of two samples and has been
\* coded as its interruption sample.
C35_Witness ==
    /\ image # NoImage
    /\ image.width = 3
    /\ image.pixels[1] = image.pixels[2]
    /\ image.pixels[3] # image.pixels[2]
    /\ image.pixels[1] = (NewParams(image.bpp).MaxVal + 1) \div 2
    /\ enc.pos = 3
    /\ enc.runContexts[1].N = 2

(***************************************************************************)
(* The pid-map after a call that carries an identity and a PID             *)
(* (mapper.go 184-229).                                                    *)
(***************************************************************************)

\* C36 as stated: after any GetAnonID call that carries a non-empty PID P
\* and a valid identity and returns X, pid-map[P] = X, so that a later call
\* with P and no valid identity returns X as well.
C36_PIDMapHoldsReturned ==
    [][\A t \in Inputs :
          ( /\ TrimSpace(t[1]) # EmptyString
            /\ ValidInput(t[2], t[3])
            /\ IsCall(t[1], t[2], t[3]) )
          => ( /\ TrimSpace(t[1]) \in DOMAIN pidMap'
               /\ pidMap'[TrimSpace(t[1])] = ret'.id )]_vars

\* C36 amended: a call that carries a non-empty PID P and a valid identity
\* and returns X leaves pid-map[P] = X, unless the identity-map held the
\* identity and the pid-map held P under another id before the call, and
\* then pid-map[P] keeps that id; no call changes an entry of the pid-map,
\* and a call with P and no valid identity returns pid-map[P].
C36_PIDMapHoldsReturnedUnlessTaken ==
    [][\A t \in Inputs :
          IsCall(t[1], t[2], t[3]) =>
              LET P == TrimSpace(t[1])
                  h == HashOfInput(t[2], t[3])
              IN  /\ \A p \in DOMAIN pidMap : p \in DOMAIN pidMap' /\ pidMap'[p] = pidMap[p]
                  /\ (P # EmptyString /\ ValidInput(t[2], t[3])) =>
                         IF /\ h \in DOMAIN identityMap
                            /\ P \in DOMAIN pidMap
                            /\ pidMap[P] # identityMap[h]
                         THEN ret'.id = identityMap[h] /\ pidMap'[P] = pidMap[P]
                         ELSE P \in DOMAIN pidMap' /\ pidMap'[P] = ret'.id
                  /\ (P \in DOMAIN pidMap /\ ~ValidInput(t[2], t[3])) =>
                         ret'.id = pidMap[P]]_vars

\* The watched call carried an identity and a PID, the pid-map holds the
\* PID under the id it returned, and the last call, by PID fallback on
\* that PID, returned the same id.
C36_Witness ==
    /\ watch.set
    /\ ValidInput(watch.name, watch.dob)
    /\ TrimSpace(watch.pid) # EmptyString
    /\ TrimSpace(watch.pid) \in DOMAIN pidMap
    /\ pidMap[TrimSpace(watch.pid)] = watch.id
    /\ ret.id = watch.id /\ ret.method = MatchPID

(***************************************************************************)
(* The two pipelines on files that carry the tags of the lists             *)
(* (tags.go 6-98, ultrasound.go 15-62 and 171-193).                        *)
(***************************************************************************)

\* The tags a file may carry besides PatientID: those of the general list
\* and the three the lists leave out on purpose.
CarriedTags ==
    TagsOf(PIITagsToClear) \cup {"InstitutionName", "StudyDescription", "SeriesDescription"}

\* Readable ultrasound files that carry PatientID and one or two of the
\* tags, each with the value "x".
TaggedFiles ==
    {[path |-> <<97>>, readable |-> TRUE, pixels |-> "burned",
      ds |-> [t \in {"PatientID", t1, t2} |-> <<120>>]] : t1, t2 \in CarriedTags}

InitPipelines == Quiet /\ Applying("AnonymizeUltrasound", TaggedFiles)

\* AnonymizeUltrasound(inputPath, outputPath, redactRows, "ANON-000001")
CallAnonymizeUltrasound ==
    Applied("AnonymizeUltrasound", <<AnonymizeUltrasound(pure.in, FormatAnonID(1))>>)

NextPipelines == CallAnonymizeUltrasound

SpecPipelines == InitPipelines /\ [][NextPipelines]_vars

\* C37: the ultrasound PII-clear set is the general PII-clear set minus
\* instance-creation time: every tag the metadata pipeline clears, other
\* than InstanceCreationTime, is cleared by the ultrasound pipeline too.
C37_UltrasoundClearsGeneralSet ==
    (pure.f = "AnonymizeUltrasound" /\ pure.done) =>
        LET general == AnonymizeMetadata(pure.in, FormatAnonID(1)).ds
            ultrasound == pure.out[1].ds
        IN  \A t \in DOMAIN pure.in.ds :
                (general[t] = EmptyString /\ t # "InstanceCreationTime")
                    => ultrasound[t] = EmptyString

(***************************************************************************)
(* Encapsulated pixel data (src/unnamed/part_006 140-284): the basic       *)
(* offset table, one item for each frame, and the sequence delimiter.      *)
(***************************************************************************)

\* binary.Write(buf, binary.LittleEndian, uint16(n)) and uint32(n)
LittleEndian16(n) == <<n % 256, (n \div 256) % 256>>
LittleEndian32(n) ==
    <<n % 256, (n \div 256) % 256, (n \div 65536) % 256, (n \div 16777216) % 256>>

\* binary.LittleEndian.Uint32(data[at : at+4]), at counted from 0
Uint32At(data, at) ==
    data[at + 1] + 256 * data[at + 2] + 65536 * data[at + 3] + 16777216 * data[at + 4]

\* The length of a frame's item: the frame padded to an even length.
PaddedLen(frame) == IF Len(frame) % 2 # 0 THEN Len(frame) + 1 ELSE Len(frame)

\* part_006 152-163: the offset of each frame's item from the first item.
RECURSIVE FrameOffsets(_, _)
FrameOffsets(frames, currentOffset) ==
    IF frames = <<>> THEN <<>>
    ELSE <<currentOffset>> \o FrameOffsets(Tail(frames),
                                           currentOffset + 8 + PaddedLen(Head(frames)))

\* part_006 188-205
writeBasicOffsetTable(offsets) ==
    LittleEndian16(65534) \o LittleEndian16(57344)
        \o (IF Len(offsets) <= 1 THEN LittleEndian32(0)
            ELSE LET RECURSIVE all(_)
                     all(o) == IF o = <<>> THEN <<>>
                               ELSE LittleEndian32(Head(o)) \o all(Tail(o))
                 IN  LittleEndian32(Len(offsets) * 4) \o all(offsets))

\* part_006 207-226
writeFrameItem(data) ==
    LittleEndian16(65534) \o LittleEndian16(57344) \o LittleEndian32(PaddedLen(data)) \o data
        \o (IF Len(data) % 2 # 0 THEN <<0>> ELSE <<>>)

\* part_006 228-236
writeSequenceDelimiter ==
    LittleEndian16(65534) \o LittleEndian16(57565) \o LittleEndian32(0)

\* part_006 149-178
EncapsulateFrames(frames) ==
    LET RECURSIVE items(_)
        items(f) == IF f = <<>> THEN <<>> ELSE writeFrameItem(Head(f)) \o items(Tail(f))
    IN  writeBasicOffsetTable(FrameOffsets(frames, 0)) \o items(frames)
            \o writeSequenceDelimiter

\* The four bytes at offset (from 0) are these.
TagAt(data, offset, b0, b1, b2, b3) ==
    /\ data[offset + 1] = b0
    /\ data[offset + 2] = b1
    /\ data[offset + 3] = b2
    /\ data[offset + 4] = b3

\* part_006 256-281: the loop over the items, from offset on.
RECURSIVE ReadFrameItems(_, _, _)
ReadFrameItems(data, offset, frames) ==
    IF ~(offset < Len(data) - 8) THEN frames
    ELSE IF TagAt(data, offset, 254, 255, 221, 224) THEN frames
    ELSE IF ~TagAt(data, offset, 254, 255, 0, 224) THEN frames
    ELSE LET itemLen == Uint32At(data, offset + 4)
             from == offset + 8
         IN  ReadFrameItems(data, from + itemLen,
                            IF from + itemLen <= Len(data)
                            THEN Append(frames, SubSeq(data, from + 1, from + itemLen))
                            ELSE frames)

\* part_006 238-284: the frames returned (nil when the data are shorter
\* than a table item); the error returned is always nil.
ExtractFramesFromEncapsulated(data) ==
    IF Len(data) < 8 THEN <<>>
    ELSE ReadFrameItems(data,
                        IF TagAt(data, 0, 254, 255, 0, 224) THEN 8 + Uint32At(data, 4) ELSE 0,
                        <<>>)

MaxFrames == 2
MaxFrameLen == 3

\* Lists of one frame or more, of all lengths from 0 up; the bytes include
\* those of the item tag.
FrameLists ==
    LET frame == UNION {[1..n -> {0, 254}] : n \in 0..MaxFrameLen}
    IN  UNION {[1..k -> frame] : k \in 1..MaxFrames}

InitEncapsulate == Quiet /\ Applying("EncapsulateFrames", FrameLists)

CallEncapsulateFrames == Applied("EncapsulateFrames", <<EncapsulateFrames(pure.in)>>)

\* The encapsulated bytes are handed to ExtractFramesFromEncapsulated.
CallExtractFrames ==
    /\ pure.f = "EncapsulateFrames"
    /\ pure.done
    /\ Len(pure.out) = 1
    /\ pure' = [pure EXCEPT !.out = Append(pure.out, ExtractFramesFromEncapsulated(pure.out[1]))]
    /\ UNCHANGED pureFrame

NextEncapsulate ==
    \/ CallEncapsulateFrames
    \/ CallExtractFrames

SpecEncapsulate == InitEncapsulate /\ [][NextEncapsulate]_vars

\* C38: ExtractFramesFromEncapsulated is the inverse of EncapsulateFrames:
\* for every non-empty list of frames, of any lengths, extracting from the
\* encapsulated bytes returns the original frames, in order and byte for
\* byte.
C38_ExtractInvertsEncapsulate ==
    (pure.f = "EncapsulateFrames" /\ Len(pure.out) = 2) => pure.out[2] = pure.in

(***************************************************************************)
(* Temporary files of the ultrasound pipeline (ultrasound.go 15-62,        *)
(* src/unnamed/part_005 33-59, writer.go 80-142).  Every step that can     *)
(* fail either succeeds or fails; the files of the temp directory are the  *)
(* numbers os.CreateTemp has handed out and that are not yet removed.      *)
(***************************************************************************)

MaxPipelineCalls == 3

tempFrame ==
    <<mapperVars, mappingDoc, ret, returned, watch, folderVars, goVars, image, enc, stream,
      dec, outputs, bw, ilv, pure>>

InitTemp == Quiet /\ pure = NoPure

\* A step that touches no temporary file: on success the call goes on at
\* next, on failure it returns the error.
Fallible(at, next) ==
    /\ temp.pc = at
    /\ \E ok \in BOOLEAN :
           temp' = [temp EXCEPT !.pc = IF ok THEN next ELSE "return", !.err = ~ok]
    /\ UNCHANGED tempFrame

\* The deferred calls of os.Remove left the temp directory like this.
RunDeferred_None(files, defers) == files

\* ultrasound.go 29 and writer.go 124: the deferred calls of os.Remove, run
\* when the function returns.
RunDeferred(files, defers) == files \ defers

\* ultrasound.go 15-21: the call, for a file that is JPEG-LS compressed or
\* is not.
CallPipeline ==
    /\ temp.pc = "idle"
    /\ temp.calls < MaxPipelineCalls
    /\ \E compressed \in BOOLEAN :
           temp' = [temp EXCEPT !.pc = IF compressed THEN "dcmdjpls.LookPath" ELSE "ReadDicom",
                                !.compressed = compressed, !.path = 0, !.defers = {},
                                !.err = FALSE]
    /\ UNCHANGED tempFrame

\* part_005 35-39
DecompressLookPath == Fallible("dcmdjpls.LookPath", "dcmdjpls.CreateTemp")

\* part_005 42-48: os.CreateTemp; on success a new file is in the temp
\* directory.
DecompressCreateTemp ==
    /\ temp.pc = "dcmdjpls.CreateTemp"
    /\ \E ok \in BOOLEAN :
           temp' = IF ok
                   THEN [temp EXCEPT !.pc = "dcmdjpls", !.made = temp.made + 1,
                                     !.files = temp.files \cup {temp.made + 1},
                                     !.path = temp.made + 1]
                   ELSE [temp EXCEPT !.pc = "return", !.err = TRUE]
    /\ UNCHANGED tempFrame

\* part_005 50-58 and ultrasound.go 25-29: dcmdjpls runs; when it fails
\* DecompressJPEGLS removes the file, when it succeeds AnonymizeUltrasound
\* defers the removal.
RunDcmdjpls ==
    /\ temp.pc = "dcmdjpls"
    /\ \E ok \in BOOLEAN :
           temp' = IF ok
                   THEN [temp EXCEPT !.pc = "ReadDicom",
                                     !.defers = temp.defers \cup {temp.path}]
                   ELSE [temp EXCEPT !.pc = "return", !.err = TRUE,
                                     !.files = temp.files \ {temp.path}]
    /\ UNCHANGED tempFrame

\* ultrasound.go 31-38
ReadTheDicom == Fallible("ReadDicom", "redactPixels")

\* ultrasound.go 40-57: the redaction, which can fail, and the tags.
RedactAndClear == Fallible("redactPixels", "MkdirAll")

\* writer.go 80-90
SaveMkdirAll ==
    Fallible("MkdirAll", IF temp.compressed THEN "dcmcjpls.LookPath" ELSE "Create")

\* writer.go 92-108: the file is written straight to the output path.
SaveCreate == Fallible("Create", "Write")
SaveWrite == Fallible("Write", "return")

\* writer.go 112-116
CompressLookPath == Fallible("dcmcjpls.LookPath", "dcmcjpls.CreateTemp")

\* writer.go 118-124: os.CreateTemp for the intermediate file, and the
\* deferred removal.
CompressCreateTemp ==
    /\ temp.pc = "dcmcjpls.CreateTemp"
    /\ \E ok \in BOOLEAN :
           temp' = IF ok
                   THEN [temp EXCEPT !.pc = "tmp.Create", !.made = temp.made + 1,
                                     !.files = temp.files \cup {temp.made + 1},
                                     !.path = temp.made + 1,
                                     !.defers = temp.defers \cup {temp.made + 1}]
                   ELSE [temp EXCEPT !.pc = "return", !.err = TRUE]
    /\ UNCHANGED tempFrame

\* writer.go 126-140
CompressCreate == Fallible("tmp.Create", "tmp.Write")
CompressWrite == Fallible("tmp.Write", "tmp.Close")
CompressClose == Fallible("tmp.Close", "dcmcjpls")
RunDcmcjpls == Fallible("dcmcjpls", "return")

\* The return of saveWithDcmtk and of AnonymizeUltrasound: the deferred
\* removals run.
ReturnPipeline ==
    /\ temp.pc = "return"
    /\ temp' = [temp EXCEPT !.pc = "idle", !.calls = temp.calls + 1,
                            !.files = RunDeferred(temp.files, temp.defers),
                            !.defers = {}]
    /\ UNCHANGED tempFrame

NextTemp ==
    \/ CallPipeline
    \/ DecompressLookPath
    \/ DecompressCreateTemp
    \/ RunDcmdjpls
    \/ ReadTheDicom
    \/ RedactAndClear
    \/ SaveMkdirAll
    \/ SaveCreate
    \/ SaveWrite
    \/ CompressLookPath
    \/ CompressCreateTemp
    \/ CompressCreate
    \/ CompressWrite
    \/ CompressClose
    \/ RunDcmcjpls
    \/ ReturnPipeline

SpecTemp == InitTemp /\ [][NextTemp]_vars

C40_RunConsumesWithinLine ==
    [][EncodeRunStep =>
           /\ enc'.pos - enc.pos >= 1
           /\ enc'.pos - enc.pos <= image.width - AtSample.x]_vars

\* One run has consumed a whole line of two samples or more: no sample was
\* coded in regular mode and none as an interruption sample.
C40_Witness ==
    /\ image # NoImage
    /\ image.width > 1
    /\ enc.pos = image.width
    /\ enc.contexts = EmptyMap
    /\ enc.runContexts = NewEncoder(image).runContexts
    /\ enc.runIndex > 0

====
